---- MODULE Spec2Model ----
(***************************************************************************)
(* A model of the OCR extraction backend: the result normalizer of         *)
(* backend/utils.py, the inference adapter of backend/inference.py, the    *)
(* page pipeline of backend/pdf_extract.py and the /run-ocr handler of     *)
(* backend/main.py.                                                        *)
(*                                                                         *)
(* Python values are tagged records; a Python str is the sequence of its   *)
(* characters, so that slicing, searching and parsing are computed; a      *)
(* Python dict is a function from its keys (strings) to values.            *)
(***************************************************************************)
EXTENDS Integers, Sequences, FiniteSets, TLC

VARIABLES
    \* ---- the deployment and the request
    disable_local, \* DISABLE_MODEL_LOAD=1
    remote_url,    \* REMOTE_OCR_URL is set
    start_page,    \* the query parameter (ge=1)
    end_page,      \* the query parameter (ge=1), 0 for None
    texts,         \* the texts internvl_chat may return
    errors,        \* the exceptions internvl_chat and load_image may raise
    \* ---- the main thread: run_ocr and extract_pdf_multi
    mainPc,        \* where the main thread is
    total,         \* len(images)
    attempt,       \* process_single_page: 1 in the try body, 2 in the fallback
    metadata_res,  \* the return value of process_single_page
    doc_type,
    envelope_id,
    total_pages_in_doc,
    page_results,  \* the list of page records
    processed,     \* iterations of the consumer loop that have ended
    cur,           \* the item dequeued, (page_idx, pv)
    response,      \* the response of run_ocr; status 0 while there is none
    \* ---- the preprocessor_worker thread and the queue
    prodPc,        \* "unstarted" | "load" | "put" | "done"
    prodIdx,       \* the position in images of the page in hand (from 1)
    inHand,        \* the item to put
    preprocessed_queue,
    \* ---- the inference adapter
    inferring,     \* the calls of ai_analysis in progress
    calls,         \* the calls of ai_analysis that have ended, in order
    \* ---- the normalizer driven on its own (SpecNorm)
    normPc,        \* "idle" | "start" | "once" | "twice"
    normIn,        \* the argument of normalize_extracted_data
    normOnce,      \* its outcome
    normTwice,     \* the outcome of normalizing normOnce again
    \* ---- dynamic_preprocess driven on its own (SpecTile)
    tilePc,        \* "idle" | "start" | "done"
    image,         \* image.size, (ow, oh)
    max_num,       \* the tile budget
    best,          \* the grid chosen, (cols, rows)
    crops,         \* the return value: the crop boxes, "thumbnail" for the extra tile
    \* ---- the context cache of backend/inference.py driven on its own (SpecCtx)
    _CTX,          \* the module global: None or the cached InferenceContext
    loads,         \* the InferenceContext objects created so far
    ctx_log        \* the calls of load_context, get_context and clear_gpu, in order

envVars == <<disable_local, remote_url, start_page, end_page, texts, errors>>

mainVars ==
    <<mainPc, total, attempt, metadata_res, doc_type, envelope_id,
      total_pages_in_doc, page_results, processed, cur, response>>

prodVars == <<prodPc, prodIdx, inHand, preprocessed_queue>>

normVars == <<normPc, normIn, normOnce, normTwice>>

tileVars == <<tilePc, image, max_num, best, crops>>

ctxVars == <<_CTX, loads, ctx_log>>

vars ==
    <<envVars, mainVars, prodVars, inferring, calls, normVars, tileVars, ctxVars>>

-----------------------------------------------------------------------------
(* String literals of the source.                                          *)

\* The backquote character (a TLA+ string cannot hold it).
Backquote == "BACKQUOTE"

sSection == <<"s", "e", "c", "t", "i", "o", "n">>
sUnknownSection == <<"U", "N", "K", "N", "O", "W", "N", " ", "S", "E", "C", "T", "I", "O", "N">>
sFormFields == <<"f", "o", "r", "m", "_", "f", "i", "e", "l", "d", "s">>
sTables == <<"t", "a", "b", "l", "e", "s">>
sNA == <<"N", "/", "A">>
sError == <<"E", "R", "R", "O", "R">>
sErrorMessage ==
    <<"e", "r", "r", "o", "r", "_", "m", "e", "s", "s", "a", "g", "e">>
sPage == <<"p", "a", "g", "e">>
sPreprocessingFailed ==
    <<"P", "r", "e", "p", "r", "o", "c", "e", "s", "s", "i", "n", "g", " ",
    "f", "a", "i", "l", "e", "d">>
sInvalidJsonRaw ==
    <<"I", "n", "v", "a", "l", "i", "d", " ", "J", "S", "O", "N", ".", " ",
    "R", "a", "w", ":", " ">>
sNone == <<"N", "o", "n", "e">>
sDocumentType ==
    <<"d", "o", "c", "u", "m", "e", "n", "t", "_", "t", "y", "p", "e">>
sEnvelopeId == <<"e", "n", "v", "e", "l", "o", "p", "e", "_", "i", "d">>
sTotalPagesInDoc ==
    <<"t", "o", "t", "a", "l", "_", "p", "a", "g", "e", "s", "_", "i", "n",
    "_", "d", "o", "c">>
sUnknown == <<"u", "n", "k", "n", "o", "w", "n">>
sDocument == <<"d", "o", "c", "u", "m", "e", "n", "t">>
sFileName == <<"f", "i", "l", "e", "_", "n", "a", "m", "e">>
sExtractedAt == <<"e", "x", "t", "r", "a", "c", "t", "e", "d", "_", "a", "t">>
sTotalPagesFromDocument ==
    <<"t", "o", "t", "a", "l", "_", "p", "a", "g", "e", "s", "_", "f", "r",
    "o", "m", "_", "d", "o", "c", "u", "m", "e", "n", "t">>
sPagesProcessed ==
    <<"p", "a", "g", "e", "s", "_", "p", "r", "o", "c", "e", "s", "s", "e",
    "d">>
sPageRange == <<"p", "a", "g", "e", "_", "r", "a", "n", "g", "e">>
sPages == <<"p", "a", "g", "e", "s">>
sEnd == <<"e", "n", "d">>
sStatus == <<"s", "t", "a", "t", "u", "s">>
sMessage == <<"m", "e", "s", "s", "a", "g", "e">>
sHint == <<"h", "i", "n", "t">>
sModelLoadingDisabled ==
    <<"M", "o", "d", "e", "l", " ", "l", "o", "a", "d", "i", "n", "g", " ",
    "d", "i", "s", "a", "b", "l", "e", "d", " ", "(", "D", "I", "S", "A",
    "B", "L", "E", "_", "M", "O", "D", "E", "L", "_", "L", "O", "A", "D",
    "=", "1", ")", ".">>
sHintText ==
    <<"O", "n", " ", "A", "W", "S", " ", "G", "P", "U", " ", "s", "e", "t",
    " ", "D", "I", "S", "A", "B", "L", "E", "_", "M", "O", "D", "E", "L",
    "_", "L", "O", "A", "D", "=", "0", " ", "(", "o", "r", " ", "u", "n",
    "s", "e", "t", " ", "i", "t", ")", ".">>
sCUDA == <<"C", "U", "D", "A">>
sOutOfMemory ==
    <<"o", "u", "t", " ", "o", "f", " ", "m", "e", "m", "o", "r", "y">>
sData == <<"d", "a", "t", "a">>
sSuccess == <<"s", "u", "c", "c", "e", "s", "s">>
sSuccessFallback ==
    <<"s", "u", "c", "c", "e", "s", "s", "_", "f", "a", "l", "l", "b", "a",
    "c", "k">>
sErrorStatus == <<"e", "r", "r", "o", "r">>
sHasNoItems ==
    <<" ", "o", "b", "j", "e", "c", "t", " ", "h", "a", "s", " ", "n", "o",
    " ", "a", "t", "t", "r", "i", "b", "u", "t", "e", " ", "'", "i", "t",
    "e", "m", "s", "'">>
sListIndex ==
    <<"l", "i", "s", "t", " ", "i", "n", "d", "e", "x", " ", "o", "u", "t",
    " ", "o", "f", " ", "r", "a", "n", "g", "e">>
sDash == <<"-">>
sQuote == <<"'">>

\* The printable ASCII characters in code-point order.
Ascii ==
    <<" ", "!", "\"", "#", "$", "%", "&", "'", "(", ")", "*", "+", ",",
    "-", ".", "/", "0", "1", "2", "3", "4", "5", "6", "7", "8", "9", ":",
    ";", "<", "=", ">", "?", "@", "A", "B", "C", "D", "E", "F", "G", "H",
    "I", "J", "K", "L", "M", "N", "O", "P", "Q", "R", "S", "T", "U", "V",
    "W", "X", "Y", "Z", "[", "\\", "]", "^", "_", Backquote, "a", "b", "c",
    "d", "e", "f", "g", "h", "i", "j", "k", "l", "m", "n", "o", "p", "q",
    "r", "s", "t", "u", "v", "w", "x", "y", "z", "{", "|", "}", "~">>


-----------------------------------------------------------------------------
(* Python values.                                                          *)

JNull == [t |-> "null"]
JStr(s) == [t |-> "str", s |-> s]
JNum(n) == [t |-> "num", n |-> n]
JBool(b) == [t |-> "bool", b |-> b]
JList(l) == [t |-> "list", l |-> l]
JDict(d) == [t |-> "dict", d |-> d]

IsDict(v) == v.t = "dict"
IsList(v) == v.t = "list"
IsStr(v) == v.t = "str"

\* Python truthiness: bool(v).
Truthy(v) ==
    CASE v.t = "null" -> FALSE
      [] v.t = "str" -> v.s # <<>>
      [] v.t = "num" -> v.n # 0
      [] v.t = "bool" -> v.b
      [] v.t = "list" -> v.l # <<>>
      [] v.t = "dict" -> DOMAIN v.d # {}

\* Python v == 0: true of the int 0 and of False.
EqZero(v) == (v.t = "num" /\ v.n = 0) \/ (v.t = "bool" /\ ~v.b)

\* The dict with the given (key, value) pairs.
MkDict(pairs) ==
    JDict([k \in {p[1] : p \in pairs} |-> (CHOOSE p \in pairs : p[1] = k)[2]])

\* d[k] = v on a dict value.
DictSet(v, k, x) ==
    JDict([j \in DOMAIN v.d \cup {k} |-> IF j = k THEN x ELSE v.d[j]])

\* del d[k] on a dict value.
DictDel(v, k) == JDict([j \in DOMAIN v.d \ {k} |-> v.d[j]])

-----------------------------------------------------------------------------
(* Python str operations, on sequences of characters.                      *)

\* The characters str.strip() and the regex class \s remove, among those the
\* model's texts use.
Whitespace == {" ", "\t", "\n", "\r"}

UpperCase ==
    <<"A", "B", "C", "D", "E", "F", "G", "H", "I", "J", "K", "L", "M",
      "N", "O", "P", "Q", "R", "S", "T", "U", "V", "W", "X", "Y", "Z">>
LowerCase ==
    <<"a", "b", "c", "d", "e", "f", "g", "h", "i", "j", "k", "l", "m",
      "n", "o", "p", "q", "r", "s", "t", "u", "v", "w", "x", "y", "z">>
Digits == <<"0", "1", "2", "3", "4", "5", "6", "7", "8", "9">>

IsDigit(c) == \E i \in 1..10 : Digits[i] = c
DigitVal(c) == (CHOOSE i \in 1..10 : Digits[i] = c) - 1

\* str.lower()
Lower(s) ==
    [i \in 1..Len(s) |->
        IF \E j \in 1..26 : UpperCase[j] = s[i]
        THEN LowerCase[CHOOSE j \in 1..26 : UpperCase[j] = s[i]]
        ELSE s[i]]

\* s[i], or "" past the end (no character equals "").
At(s, i) == IF i >= 1 /\ i <= Len(s) THEN s[i] ELSE ""

\* s.startswith(lit, i-1)
StartsWithAt(s, i, lit) ==
    i + Len(lit) - 1 <= Len(s) /\ SubSeq(s, i, i + Len(lit) - 1) = lit

\* sub in s
Contains(s, sub) == \E i \in 1..(Len(s) - Len(sub) + 1) : StartsWithAt(s, i, sub)

\* The first position at or after i that holds no whitespace (Len(s)+1 when
\* there is none).
SkipWs(s, i) ==
    LET J == {j \in i..(Len(s) + 1) : At(s, j) \notin Whitespace}
    IN  CHOOSE j \in J : \A k \in J : j <= k

\* str.strip()
Strip(s) ==
    LET first == SkipWs(s, 1)
        L == {j \in 0..Len(s) : At(s, j) \notin Whitespace}
        last == CHOOSE j \in L : \A k \in L : k <= j
    IN  IF first > Len(s) THEN <<>> ELSE SubSeq(s, first, last)

\* s[:n]
Prefix(s, n) == SubSeq(s, 1, IF Len(s) < n THEN Len(s) ELSE n)

\* str(n) of an int.
RECURSIVE NatToStr(_)
NatToStr(n) ==
    IF n < 10 THEN <<Digits[n + 1]>>
    ELSE Append(NatToStr(n \div 10), Digits[(n % 10) + 1])

IntToStr(n) == IF n < 0 THEN <<"-">> \o NatToStr(-n) ELSE NatToStr(n)

\* The number a non-empty sequence of decimal digits denotes.
RECURSIVE DigitsToNat(_)
DigitsToNat(ds) ==
    IF ds = <<>> THEN 0
    ELSE 10 * DigitsToNat(SubSeq(ds, 1, Len(ds) - 1)) + DigitVal(ds[Len(ds)])

\* The end (exclusive) of the run of digits starting at i.
DigitsEnd(s, i) ==
    LET J == {j \in i..(Len(s) + 1) : ~IsDigit(At(s, j))}
    IN  CHOOSE j \in J : \A k \in J : j <= k

-----------------------------------------------------------------------------
(* backend/utils.py: remove_empty_values.                                  *)

\* The filter of the dict comprehension.
KeepField(v) ==
    \/ (v # JNull /\ v # JStr(<<>>) /\ v # JList(<<>>) /\ v # JDict(<<>>))
    \/ v = JStr(sNA)
    \/ EqZero(v)
    \/ v = JBool(FALSE)

\* The filter of the list comprehension.
KeepItem(v) ==
    v # JNull /\ v # JStr(<<>>) /\ v # JDict(<<>>) /\ v # JList(<<>>)

RECURSIVE remove_empty_values(_)
remove_empty_values(data) ==
    IF IsDict(data)
    THEN JDict([k \in {j \in DOMAIN data.d : KeepField(data.d[j])}
                  |-> remove_empty_values(data.d[k])])
    ELSE IF IsList(data)
    THEN LET kept == SelectSeq(data.l, KeepItem)
             cleaned == [i \in 1..Len(kept) |-> remove_empty_values(kept[i])]
         IN  IF cleaned # <<>> THEN JList(cleaned) ELSE JNull
    ELSE data

-----------------------------------------------------------------------------
(* backend/utils.py: normalize_extracted_data.                             *)

\* merged = {}; for t in tables: if isinstance(t, dict): merged.update(t)
RECURSIVE MergeTables(_, _)
MergeTables(merged, ts) ==
    IF ts = <<>> THEN merged
    ELSE LET t == Head(ts)
             m == IF IsDict(t)
                  THEN [k \in DOMAIN merged \cup DOMAIN t.d |->
                          IF k \in DOMAIN t.d THEN t.d[k] ELSE merged[k]]
                  ELSE merged
         IN  MergeTables(m, Tail(ts))

\* The column keys of every row of every table.
AllRowFields(tables) ==
    UNION {UNION {DOMAIN tables.d[n].l[i].d :
                    i \in {j \in 1..Len(tables.d[n].l) : IsDict(tables.d[n].l[j])}} :
             n \in {m \in DOMAIN tables.d : IsList(tables.d[m])}}

\* The column keys of the first row of every table that is a non-empty list
\* whose first row is a dict.
TableFields(tables) ==
    UNION {DOMAIN tables.d[n].l[1].d :
             n \in {m \in DOMAIN tables.d :
                      /\ IsList(tables.d[m])
                      /\ tables.d[m].l # <<>>
                      /\ IsDict(tables.d[m].l[1])}}

\* Lines 85-89: a falsy or non-dict input becomes {"section": "UNKNOWN
\* SECTION"}; a dict without "section" gets it.
WithSection(parsed) ==
    LET p == IF ~Truthy(parsed) \/ ~IsDict(parsed)
             THEN JDict([k \in {sSection} |-> JStr(sUnknownSection)])
             ELSE parsed
    IN  IF sSection \notin DOMAIN p.d
        THEN DictSet(p, sSection, JStr(sUnknownSection))
        ELSE p

\* Lines 92-101: tables given as a list is replaced by the merged dict.
WithMergedTables(p) ==
    IF sFormFields \in DOMAIN p.d /\ sTables \in DOMAIN p.d /\ IsList(p.d[sTables])
    THEN DictSet(p, sTables, JDict(MergeTables(<<>>, p.d[sTables].l)))
    ELSE p

\* Whether lines 103-121 run: both keys present and tables is a dict.
Dedups(p) ==
    sFormFields \in DOMAIN p.d /\ sTables \in DOMAIN p.d /\ IsDict(p.d[sTables])

\* Lines 112-121 on a dict form_fields.
WithoutDuplicateFields(p) ==
    LET ff == p.d[sFormFields]
        table_fields == TableFields(p.d[sTables])
        fields_to_remove == {f \in DOMAIN ff.d :
                               f \in table_fields /\ IsList(ff.d[f])}
        pruned == JDict([f \in DOMAIN ff.d \ fields_to_remove |-> ff.d[f]])
    IN  IF ~Truthy(pruned)
        THEN DictDel(p, sFormFields)
        ELSE DictSet(p, sFormFields, pruned)

\* Line 113 raises AttributeError when form_fields is present but is not a
\* dict (parsed.get("form_fields", {}).items()).
NormalizeRaises(parsed) ==
    LET p == WithMergedTables(WithSection(parsed))
    IN  Dedups(p) /\ ~IsDict(p.d[sFormFields])

\* The value returned (when NormalizeRaises is false).
normalize_extracted_data(parsed) ==
    LET p == WithMergedTables(WithSection(parsed))
    IN  remove_empty_values(IF Dedups(p) THEN WithoutDuplicateFields(p) ELSE p)

-----------------------------------------------------------------------------
(* json.loads, for texts without backslash escapes, fractions, exponents   *)
(* and the NaN/Infinity literals: objects, arrays, strings, integers,      *)
(* true, false and null, with JSON whitespace between tokens.              *)

ParseFail == [ok |-> FALSE, val |-> JNull, pos |-> 0]
ParseOk(v, p) == [ok |-> TRUE, val |-> v, pos |-> p]

sNullLit == <<"n", "u", "l", "l">>
sTrueLit == <<"t", "r", "u", "e">>
sFalseLit == <<"f", "a", "l", "s", "e">>

\* A string token starting at the quote s[i]: up to the next quote; a
\* control character inside it is an error (strict mode).
ScanString(s, i) ==
    LET J == {j \in (i + 1)..Len(s) : s[j] = "\""}
        close == CHOOSE j \in J : \A k \in J : j <= k
    IN  IF J = {} THEN ParseFail
        ELSE IF \E k \in (i + 1)..(close - 1) : s[k] \in {"\n", "\t", "\r", "\\"}
        THEN ParseFail
        ELSE ParseOk(JStr(SubSeq(s, i + 1, close - 1)), close + 1)

\* An integer token starting at s[i]: -?(0|[1-9][0-9]*).
ScanNumber(s, i) ==
    LET neg == At(s, i) = "-"
        d == IF neg THEN i + 1 ELSE i
        e == IF At(s, d) = "0" THEN d + 1 ELSE DigitsEnd(s, d)
        n == DigitsToNat(SubSeq(s, d, e - 1))
    IN  IF ~IsDigit(At(s, d)) THEN ParseFail
        ELSE ParseOk(JNum(IF neg THEN -n ELSE n), e)

RECURSIVE ParseValue(_, _), ParseItems(_, _, _), ParseMembers(_, _, _)

\* scan_once: the value starting at s[i].
ParseValue(s, i) ==
    LET c == At(s, i)
    IN  CASE c = "\"" -> ScanString(s, i)
          [] c = "{" ->
               LET j == SkipWs(s, i + 1)
               IN  IF At(s, j) = "}" THEN ParseOk(JDict(<<>>), j + 1)
                   ELSE ParseMembers(s, j, <<>>)
          [] c = "[" ->
               LET j == SkipWs(s, i + 1)
               IN  IF At(s, j) = "]" THEN ParseOk(JList(<<>>), j + 1)
                   ELSE ParseItems(s, j, <<>>)
          [] c = "n" ->
               IF StartsWithAt(s, i, sNullLit) THEN ParseOk(JNull, i + 4)
               ELSE ParseFail
          [] c = "t" ->
               IF StartsWithAt(s, i, sTrueLit) THEN ParseOk(JBool(TRUE), i + 4)
               ELSE ParseFail
          [] c = "f" ->
               IF StartsWithAt(s, i, sFalseLit) THEN ParseOk(JBool(FALSE), i + 5)
               ELSE ParseFail
          [] c = "-" \/ IsDigit(c) -> ScanNumber(s, i)
          [] OTHER -> ParseFail

\* JSONArray: the items from s[i] on, acc being those read so far.
ParseItems(s, i, acc) ==
    LET r == ParseValue(s, i)
        j == SkipWs(s, r.pos)
        items == Append(acc, r.val)
    IN  IF ~r.ok THEN ParseFail
        ELSE IF At(s, j) = "]" THEN ParseOk(JList(items), j + 1)
        ELSE IF At(s, j) = "," THEN ParseItems(s, SkipWs(s, j + 1), items)
        ELSE ParseFail

\* JSONObject: the members from s[i] on, acc being the dict read so far (a
\* repeated key keeps its last value).
ParseMembers(s, i, acc) ==
    LET k == ScanString(s, i)
        colon == SkipWs(s, k.pos)
        r == ParseValue(s, SkipWs(s, colon + 1))
        j == SkipWs(s, r.pos)
        members == [x \in DOMAIN acc \cup {k.val.s} |->
                      IF x = k.val.s THEN r.val ELSE acc[x]]
    IN  IF At(s, i) # "\"" THEN ParseFail
        ELSE IF ~k.ok THEN ParseFail
        ELSE IF At(s, colon) # ":" THEN ParseFail
        ELSE IF ~r.ok THEN ParseFail
        ELSE IF At(s, j) = "}" THEN ParseOk(JDict(members), j + 1)
        ELSE IF At(s, j) = "," THEN ParseMembers(s, SkipWs(s, j + 1), members)
        ELSE ParseFail

\* json.loads(s): ok is false where it raises.
JsonLoads(s) ==
    LET r == ParseValue(s, SkipWs(s, 1))
    IN  IF r.ok /\ SkipWs(s, r.pos) = Len(s) + 1 THEN r ELSE ParseFail

-----------------------------------------------------------------------------
(* backend/utils.py: clean_model_json and try_parse_json_strict.           *)

\* The markdown code fence: three backquotes.
sFence == <<Backquote, Backquote, Backquote>>
sJson == <<"j", "s", "o", "n">>

\* Whether position i starts a line (the regex ^ under MULTILINE).
LineStart(s, i) == i = 1 \/ At(s, i - 1) = "\n"

\* Whether position i ends a line (the regex $ under MULTILINE).
LineEnd(s, i) == i = Len(s) + 1 \/ At(s, i) = "\n"

\* The first position j >= i where M(s, j) holds (Len(s)+1 when none does).
FirstMatch(s, i, M(_, _)) ==
    LET J == {j \in i..Len(s) : M(s, j)}
    IN  IF J = {} THEN Len(s) + 1 ELSE CHOOSE j \in J : \A k \in J : j <= k

\* A match of ^FENCE(?:json)?\s* starts at j (IGNORECASE | MULTILINE).
OpeningFenceAt(s, j) == LineStart(s, j) /\ StartsWithAt(s, j, sFence)

\* re.sub(r"^FENCE(?:json)?\s*", "", s, flags=IGNORECASE | MULTILINE), from i.
RECURSIVE StripOpeningFences(_, _)
StripOpeningFences(s, i) ==
    LET m == FirstMatch(s, i, OpeningFenceAt)
        j == IF m + 6 <= Len(s) /\ Lower(SubSeq(s, m + 3, m + 6)) = sJson
             THEN m + 7 ELSE m + 3
    IN  IF m > Len(s) THEN SubSeq(s, i, Len(s))
        ELSE SubSeq(s, i, m - 1) \o StripOpeningFences(s, SkipWs(s, j))

\* A match of \s*FENCE$ starts at j (MULTILINE).
ClosingFenceAt(s, j) ==
    LET k == SkipWs(s, j)
    IN  StartsWithAt(s, k, sFence) /\ LineEnd(s, k + 3)

\* re.sub(r"\s*FENCE$", "", s, flags=MULTILINE), from i.
RECURSIVE StripClosingFences(_, _)
StripClosingFences(s, i) ==
    LET m == FirstMatch(s, i, ClosingFenceAt)
    IN  IF m > Len(s) THEN SubSeq(s, i, Len(s))
        ELSE SubSeq(s, i, m - 1) \o StripClosingFences(s, SkipWs(s, m) + 3)

FenceAt(s, j) == StartsWithAt(s, j, sFence)

\* s.replace(FENCE, ""), from i.
RECURSIVE RemoveFences(_, _)
RemoveFences(s, i) ==
    LET m == FirstMatch(s, i, FenceAt)
    IN  IF m > Len(s) THEN SubSeq(s, i, Len(s))
        ELSE SubSeq(s, i, m - 1) \o RemoveFences(s, m + 3)

\* cleaned[first:last + 1] for the first "{" and the last "}", when both occur.
ExtractObject(s) ==
    LET F == {i \in 1..Len(s) : s[i] = "{"}
        L == {i \in 1..Len(s) : s[i] = "}"}
        first == CHOOSE i \in F : \A k \in F : i <= k
        last == CHOOSE i \in L : \A k \in L : k <= i
    IN  IF F # {} /\ L # {} THEN SubSeq(s, first, last) ELSE s

\* A match of ,\s*([}\]]) starts at j.
TrailingCommaAt(s, j) == s[j] = "," /\ At(s, SkipWs(s, j + 1)) \in {"}", "]"}

\* re.sub(r",\s*([}\]])", r"\1", s), from i.
RECURSIVE RemoveTrailingCommas(_, _)
RemoveTrailingCommas(s, i) ==
    LET m == FirstMatch(s, i, TrailingCommaAt)
        j == SkipWs(s, m + 1)
    IN  IF m > Len(s) THEN SubSeq(s, i, Len(s))
        ELSE SubSeq(s, i, m - 1) \o <<s[j]>> \o RemoveTrailingCommas(s, j + 1)

clean_model_json(text) ==
    LET c1 == Strip(text)
        c2 == StripOpeningFences(c1, 1)
        c3 == StripClosingFences(c2, 1)
        c4 == RemoveFences(c3, 1)
        c5 == ExtractObject(c4)
        c6 == RemoveTrailingCommas(c5, 1)
    IN  Strip(c6)

\* try_parse_json_strict on a str: (json.loads(cleaned), True), or (obj,
\* False) where json.loads raises.
\* Lines 36-40: the value json.loads returned, or obj where it raised.
ParsedOrText(obj, r) ==
    IF r.ok THEN [parsed |-> r.val, is_json |-> TRUE]
    ELSE [parsed |-> JStr(obj), is_json |-> FALSE]

try_parse_json_strict(obj) == ParsedOrText(obj, JsonLoads(clean_model_json(obj)))

-----------------------------------------------------------------------------
(* Exceptions: the class and the message, str(e).                          *)

Exc(cls, msg) == [cls |-> cls, msg |-> msg]

\* backend/inference.py: class ModelNotLoadedError(RuntimeError), raised by
\* load_context when DISABLE_MODEL_LOAD=1.
ModelNotLoadedError == Exc("ModelNotLoadedError", sModelLoadingDisabled)

\* isinstance(e, RuntimeError)
IsRuntimeError(e) == e.cls \in {"RuntimeError", "ModelNotLoadedError"}

\* "CUDA" in str(e) or "out of memory" in str(e).lower()
IsOomMessage(e) ==
    Contains(e.msg, sCUDA) \/ Contains(Lower(e.msg), sOutOfMemory)

\* type(v).__name__
PyTypeName(v) ==
    CASE v.t = "null" -> <<"N", "o", "n", "e", "T", "y", "p", "e">>
      [] v.t = "str" -> <<"s", "t", "r">>
      [] v.t = "num" -> <<"i", "n", "t">>
      [] v.t = "bool" -> <<"b", "o", "o", "l">>
      [] v.t = "list" -> <<"l", "i", "s", "t">>
      [] v.t = "dict" -> <<"d", "i", "c", "t">>

\* The AttributeError normalize_extracted_data raises on parsed (where
\* NormalizeRaises holds).
NormalizeError(parsed) ==
    LET ff == WithSection(parsed).d[sFormFields]
    IN  Exc("AttributeError", sQuote \o PyTypeName(ff) \o sQuote \o sHasNoItems)

\* d.get(k, default)
DictGet(v, k, default) == IF k \in DOMAIN v.d THEN v.d[k] ELSE default

-----------------------------------------------------------------------------
(* backend/inference.py: ai_analysis, on the text internvl_chat returned.  *)

\* Lines 153-158, r being try_parse_json_strict(resp).
Analysis(resp, r) ==
    IF resp = <<>> THEN [parsed |-> JNull, raw |-> JNull]
    ELSE IF r.is_json THEN [parsed |-> r.parsed, raw |-> JNull]
    ELSE [parsed |-> JNull, raw |-> JStr(resp)]

ai_analysis(resp) == Analysis(resp, try_parse_json_strict(resp))

-----------------------------------------------------------------------------
(* backend/pdf_extract.py: the page records of extract_pdf_multi.          *)

RawExcerptLen == 200

\* {"page": page_idx, "section": "ERROR", "error_message": msg}
ErrorRecord(page_idx, msg) ==
    MkDict({<<sPage, JNum(page_idx)>>,
            <<sSection, JStr(sError)>>,
            <<sErrorMessage, JStr(msg)>>})

\* f"Invalid JSON. Raw: {raw[:200] if raw else 'None'}"
InvalidJsonMessage(raw) ==
    sInvalidJsonRaw
    \o (IF Truthy(raw) THEN Prefix(raw.s, RawExcerptLen) ELSE sNone)

\* for key, value in parsed.items():
\*     if key != "section" and value: page_data[key] = value
MergeFields(page_data, parsed) ==
    LET copied == {k \in DOMAIN parsed.d : k # sSection /\ Truthy(parsed.d[k])}
    IN  JDict([k \in DOMAIN page_data.d \cup copied |->
                 IF k \in copied THEN parsed.d[k] ELSE page_data.d[k]])

\* Lines 262-270: the record of a page from its parsed response.
StructuredRecord(page_idx, parsed0) ==
    LET parsed == normalize_extracted_data(parsed0)
        page_data ==
            MkDict({<<sPage, JNum(page_idx)>>,
                    <<sSection, DictGet(parsed, sSection, JStr(sUnknownSection))>>})
    IN  MergeFields(page_data, parsed)

\* Lines 254-278: the record of a page from a, what ai_analysis returned.
PageData(page_idx, a) ==
    IF a.parsed = JNull
    THEN ErrorRecord(page_idx, InvalidJsonMessage(a.raw))
    ELSE IF NormalizeRaises(a.parsed)
    THEN ErrorRecord(page_idx, NormalizeError(a.parsed).msg)
    ELSE StructuredRecord(page_idx, a.parsed)

\* Lines 252-278: the record of a page whose inference returned resp.
PageDataOfResponse(page_idx, resp) == PageData(page_idx, ai_analysis(resp))

\* The record of a page whose inference raised e, without str(e).
PageDataWithoutMessage(page_idx, e) == ErrorRecord(page_idx, <<>>)

\* Lines 272-278: the record of a page whose inference raised e.
PageDataOfException(page_idx, e) == ErrorRecord(page_idx, e.msg)

\* Lines 244-248: the record of a page whose preprocessing failed.
PreprocessingFailedRecord(page_idx) ==
    ErrorRecord(page_idx, sPreprocessingFailed)

-----------------------------------------------------------------------------
(* backend/pdf_extract.py: process_single_page, its return values.         *)

\* {"status": status, "data": data}
PageResult(status, data) ==
    MkDict({<<sStatus, JStr(status)>>, <<sData, data>>})

\* Line 135 and line 138.
ErrorResult(e) ==
    PageResult(sErrorStatus,
               MkDict({<<sSection, JStr(sError)>>,
                       <<sErrorMessage, JStr(e.msg)>>}))

\* Whether the handler of line 124 retries on e (lines 124-125).
RetriesOn(e) == IsRuntimeError(e) /\ IsOomMessage(e)

-----------------------------------------------------------------------------
(* backend/pdf_extract.py: the document fields (lines 198-211).            *)

\* int(s) of a str: the value, or ok = FALSE where it raises ValueError.
IntOfStr(s) ==
    LET t == Strip(s)
        signed == At(t, 1) \in {"-", "+"}
        ds == IF signed THEN SubSeq(t, 2, Len(t)) ELSE t
        allDigits == ds # <<>> /\ \A i \in 1..Len(ds) : IsDigit(ds[i])
    IN  IF ~allDigits THEN [ok |-> FALSE, val |-> 0]
        ELSE [ok |-> TRUE,
              val |-> IF At(t, 1) = "-" THEN -DigitsToNat(ds) ELSE DigitsToNat(ds)]

\* re.search(r"(\d+)$", s): the digits matched, or <<>> when there is no
\* match ($ matches at the end and before a newline that ends s).
TrailingDigits(s) ==
    LET e == IF At(s, Len(s)) = "\n" THEN Len(s) - 1 ELSE Len(s)
        B == {i \in 1..e : \A k \in i..e : IsDigit(s[k])}
    IN  IF e < 1 \/ B = {} THEN <<>>
        ELSE SubSeq(s, CHOOSE i \in B : \A k \in B : i <= k, e)

\* Lines 200-211: total_pages_in_doc after the parse.
ParsedTotalPages(metadata, n) ==
    LET v == DictGet(metadata, sTotalPagesInDoc, JNull)
        m == TrailingDigits(v.s)
        whole == IntOfStr(v.s)
    IN  IF ~(Truthy(v) /\ IsStr(v)) THEN v
        ELSE IF m # <<>> THEN JNum(DigitsToNat(m))
        ELSE IF whole.ok THEN JNum(whole.val)
        ELSE JNum(n)

\* metadata.get("document_type") or "unknown"
DocType(metadata) ==
    LET v == DictGet(metadata, sDocumentType, JNull)
    IN  IF Truthy(v) THEN v ELSE JStr(sUnknown)

-----------------------------------------------------------------------------
(* backend/pdf_extract.py: page_results.sort(key=lambda x: x["page"]).     *)

CodePoint(c) == CHOOSE i \in 1..Len(Ascii) : Ascii[i] = c

\* a < b on two str.
RECURSIVE StrLess(_, _)
StrLess(a, b) ==
    IF b = <<>> THEN FALSE
    ELSE IF a = <<>> THEN TRUE
    ELSE IF Head(a) # Head(b) THEN CodePoint(Head(a)) < CodePoint(Head(b))
    ELSE StrLess(Tail(a), Tail(b))

IsNumber(v) == v.t \in {"num", "bool"}
NumberOf(v) == IF v.t = "num" THEN v.n ELSE IF v.b THEN 1 ELSE 0

\* Whether a < b is defined (it raises TypeError otherwise). Two lists
\* compare by their items; the model's page keys are numbers and strings.
Comparable(a, b) ==
    (IsNumber(a) /\ IsNumber(b)) \/ (IsStr(a) /\ IsStr(b))

\* a < b where Comparable.
PyLess(a, b) ==
    IF IsStr(a) THEN StrLess(a.s, b.s) ELSE NumberOf(a) < NumberOf(b)

PageKey(x) == x.d[sPage]

\* The sort raises TypeError when two keys cannot be compared.
SortRaises(results) ==
    \E i, j \in 1..Len(results) :
        i < j /\ ~Comparable(PageKey(results[i]), PageKey(results[j]))

\* x inserted into the sorted list after every item that is not greater.
RECURSIVE InsertByPage(_, _)
InsertByPage(sorted, x) ==
    IF sorted = <<>> THEN <<x>>
    ELSE IF PyLess(PageKey(x), PageKey(sorted[Len(sorted)]))
    THEN Append(InsertByPage(SubSeq(sorted, 1, Len(sorted) - 1), x),
                sorted[Len(sorted)])
    ELSE Append(sorted, x)

\* The list left in append order.
Unsorted(results) == results

\* The stable ascending sort by "page".
RECURSIVE SortByPage(_)
SortByPage(results) ==
    IF results = <<>> THEN <<>>
    ELSE InsertByPage(SortByPage(SubSeq(results, 1, Len(results) - 1)),
                      results[Len(results)])

-----------------------------------------------------------------------------
(* backend/pdf_extract.py: the Document Record (lines 288-301).            *)

\* The value of datetime.now().isoformat(), which the model does not read.
sNow == <<"n", "o", "w">>

\* pdf_filename, the name of the uploaded file.
sFilePdf == <<"f", "i", "l", "e", ".", "p", "d", "f">>

\* f"{start_page}-{end_page or 'end'}"; end_page is 0 for None.
PageRange(start, end) ==
    IntToStr(start) \o sDash \o (IF end # 0 THEN IntToStr(end) ELSE sEnd)

FinalDocument(dtype, env_id, total_pages, n, start, end, results) ==
    LET document ==
            MkDict({<<sFileName, JStr(sFilePdf)>>,
                    <<sDocumentType, dtype>>,
                    <<sExtractedAt, JStr(sNow)>>,
                    <<sTotalPagesFromDocument,
                      IF Truthy(total_pages) THEN total_pages ELSE JNum(n)>>,
                    <<sPagesProcessed, JNum(Len(results))>>,
                    <<sPageRange, JStr(PageRange(start, end))>>}
                   \cup (IF Truthy(env_id)
                         THEN {<<sEnvelopeId, env_id>>} ELSE {}))
    IN  MkDict({<<sDocument, document>>, <<sPages, JList(results)>>})

-----------------------------------------------------------------------------
(* backend/main.py: the responses of run_ocr.                              *)

Response(status, content) == [status |-> status, content |-> content]

\* Lines 143-158: the response to an exception raised by the local path.
ErrorResponse(e) ==
    IF e.cls = "ModelNotLoadedError"
    THEN Response(503, MkDict({<<sStatus, JStr(sErrorStatus)>>,
                               <<sMessage, JStr(e.msg)>>,
                               <<sHint, JStr(sHintText)>>}))
    ELSE Response(500, MkDict({<<sStatus, JStr(sErrorStatus)>>,
                               <<sMessage, JStr(e.msg)>>}))

-----------------------------------------------------------------------------
(* The repertoire of the model under test: the texts internvl_chat may      *)
(* return and the exceptions it or load_image may raise.                    *)

\* The empty text.
rEmpty == <<>>

\* A text that is not JSON.
rNotJson == <<"n", "o", "t", " ", "j", "s", "o", "n">>

\* An object that has a "page" key and a zero field.
rPaged ==
    <<"{", "\"", "s", "e", "c", "t", "i", "o", "n", "\"", ":", " ", "\"",
    "A", "\"", ",", " ", "\"", "p", "a", "g", "e", "\"", ":", " ", "7",
    ",", " ", "\"", "k", "\"", ":", " ", "0", "}">>

\* An object whose "page" is a str.
rPagedStr ==
    <<"{", "\"", "p", "a", "g", "e", "\"", ":", " ", "\"", "x", "\"", "}">>

\* A JSON number.
rNumber == <<"4", "2">>

\* A JSON list.
rList == <<"[", "1", "]">>

\* The JSON null.
rNull == <<"n", "u", "l", "l">>

\* An object in a code fence, with a trailing comma.
rFenced ==
    <<Backquote, Backquote, Backquote, "j", "s", "o", "n", "\n", "{", "\"",
    "s", "e", "c", "t", "i", "o", "n", "\"", ":", " ", "\"", "B", "\"",
    ",", " ", "\"", "v", "\"", ":", " ", "[", "1", ",", " ", "\"", "\"",
    "]", ",", "}", "\n", Backquote, Backquote, Backquote>>

\* An object without section.
rNoSection ==
    <<"{", "\"", "k", "\"", ":", " ", "1", ",", " ", "\"", "f", "\"", ":",
    " ", "f", "a", "l", "s", "e", "}">>

\* An object whose form_fields is a list.
rBadFields ==
    <<"{", "\"", "f", "o", "r", "m", "_", "f", "i", "e", "l", "d", "s",
    "\"", ":", " ", "[", "1", "]", ",", " ", "\"", "t", "a", "b", "l", "e",
    "s", "\"", ":", " ", "{", "\"", "t", "\"", ":", " ", "[", "{", "\"",
    "c", "\"", ":", " ", "1", "}", "]", "}", "}">>

\* Document metadata.
rMeta ==
    <<"{", "\"", "d", "o", "c", "u", "m", "e", "n", "t", "_", "t", "y",
    "p", "e", "\"", ":", " ", "\"", "W", "2", "\"", ",", " ", "\"", "e",
    "n", "v", "e", "l", "o", "p", "e", "_", "i", "d", "\"", ":", " ", "\"",
    "E", "1", "\"", ",", " ", "\"", "t", "o", "t", "a", "l", "_", "p", "a",
    "g", "e", "s", "_", "i", "n", "_", "d", "o", "c", "\"", ":", " ", "\"",
    "P", "a", "g", "e", " ", "1", " ", "o", "f", " ", "1", "2", "\"", "}">>

\* Metadata whose page count is not a number.
rMetaWords ==
    <<"{", "\"", "t", "o", "t", "a", "l", "_", "p", "a", "g", "e", "s",
    "_", "i", "n", "_", "d", "o", "c", "\"", ":", " ", "\"", "t", "w", "e",
    "l", "v", "e", "\"", "}">>

\* Metadata whose page count is a list.
rMetaList ==
    <<"{", "\"", "t", "o", "t", "a", "l", "_", "p", "a", "g", "e", "s",
    "_", "i", "n", "_", "d", "o", "c", "\"", ":", " ", "[", "1", "2", "]",
    "}">>

\* A text that is not JSON and is longer than the excerpt of line 259.
rLong == [i \in 1..(RawExcerptLen + 5) |-> "x"]

eCudaOom == Exc("RuntimeError", <<"C", "U", "D", "A", " ", "o", "u", "t", " ", "o", "f", " ", "m", "e",
    "m", "o", "r", "y">>)

eOutOfMemory == Exc("RuntimeError", <<"O", "u", "t", " ", "o", "f", " ", "m", "e", "m", "o", "r", "y">>)

eRuntime == Exc("RuntimeError", <<"d", "e", "v", "i", "c", "e", "-", "s", "i", "d", "e", " ", "a", "s",
    "s", "e", "r", "t">>)

eValue == Exc("ValueError", <<"o", "u", "t", " ", "o", "f", " ", "m", "e", "m", "o", "r", "y">>)

-----------------------------------------------------------------------------
(* The /run-ocr request: run_ocr (backend/main.py) calling                 *)
(* extract_pdf_multi (backend/pdf_extract.py), whose preprocessor_worker   *)
(* thread feeds the main thread through preprocessed_queue.                *)

\* The number of pages of the uploaded document.
MaxPages == 4

\* Queue(maxsize=2)
QueueMaxsize == 2

\* max_num of the first attempt and of the fallback (lines 118 and 129).
MaxNum(n) == IF n = 1 THEN 12 ELSE 6

\* The images convert_from_bytes returns: pages first_page..last_page of the
\* document (through its last page when last_page is None, here 0).
RenderedCount(start, end) ==
    LET last == IF end = 0 \/ end > MaxPages THEN MaxPages ELSE end
    IN  IF start > last THEN 0 ELSE last - start + 1

\* pdf2image's error for a document it cannot read.
RenderFailed ==
    Exc("PDFPageCountError",
        <<"U", "n", "a", "b", "l", "e", " ", "t", "o", " ", "g", "e", "t", " ",
          "p", "a", "g", "e", " ", "c", "o", "u", "n", "t", ".">>)

\* images[0] on an empty list.
IndexError == Exc("IndexError", sListIndex)

\* The TypeError of the sort (its operand types left out).
SortTypeError ==
    Exc("TypeError",
        <<"'", "<", "'", " ", "n", "o", "t", " ", "s", "u", "p", "p", "o", "r",
          "t", "e", "d">>)

\* What internvl_chat may do on a call: raise ModelNotLoadedError when model
\* loading is disabled, else raise one of the repertoire's errors or return
\* one of its texts.
ChatOutcomes ==
    IF disable_local
    THEN {[exc |-> TRUE, e |-> ModelNotLoadedError]}
    ELSE {[exc |-> TRUE, e |-> e] : e \in errors}
         \cup {[exc |-> FALSE, text |-> r] : r \in texts}

\* What load_image may do on the main thread: return, or raise.
LoadOutcomes ==
    {[exc |-> FALSE]} \cup {[exc |-> TRUE, e |-> e] : e \in errors}

NoResponse == Response(0, JNull)

\* The state before a request: nothing of the pipeline exists yet.
PipelineIdle ==
    /\ mainPc = "idle"
    /\ prodPc = "unstarted"
    /\ total = 0
    /\ attempt = 1
    /\ metadata_res = JNull
    /\ doc_type = JNull
    /\ envelope_id = JNull
    /\ total_pages_in_doc = JNull
    /\ page_results = <<>>
    /\ processed = 0
    /\ cur = JNull
    /\ prodIdx = 0
    /\ inHand = JNull
    /\ preprocessed_queue = <<>>
    /\ inferring = <<>>
    /\ calls = <<>>
    /\ response = NoResponse

\* run_ocr, lines 88-116: with DISABLE_MODEL_LOAD=1 and REMOTE_OCR_URL set
\* the request is forwarded; the answer is the remote one, or 502.
RunOcrProxy ==
    /\ mainPc = "idle"
    /\ disable_local /\ remote_url
    /\ \E status \in {200, 502} : response' = Response(status, JNull)
    /\ mainPc' = "done"
    /\ UNCHANGED <<envVars, prodVars, total, attempt, metadata_res, doc_type,
                   envelope_id, total_pages_in_doc, page_results, processed,
                   cur, inferring, calls, normVars, tileVars,
                   ctxVars>>

\* run_ocr, lines 119-139: the local path calls extract_pdf_multi.
RunOcrLocal ==
    /\ mainPc = "idle"
    /\ ~(disable_local /\ remote_url)
    /\ mainPc' = "render"
    /\ UNCHANGED <<envVars, prodVars, total, attempt, metadata_res, doc_type,
                   envelope_id, total_pages_in_doc, page_results, processed,
                   cur, inferring, calls, response, normVars, tileVars,
                   ctxVars>>

\* The main thread ends the request with the response to exception e.
Abort(e) ==
    /\ response' = ErrorResponse(e)
    /\ mainPc' = "done"

\* extract_pdf_multi, lines 172-192: the document is rendered; rendering may
\* fail, and images[0] raises IndexError when no page was rendered.
Render ==
    /\ mainPc = "render"
    /\ \/ /\ Abort(RenderFailed)
          /\ UNCHANGED total
       \/ /\ total' = RenderedCount(start_page, end_page)
          /\ IF total' = 0
             THEN Abort(IndexError)
             ELSE mainPc' = "meta_load" /\ UNCHANGED response
    /\ UNCHANGED <<envVars, prodVars, attempt, metadata_res, doc_type,
                   envelope_id, total_pages_in_doc, page_results, processed,
                   cur, inferring, calls, normVars, tileVars,
                   ctxVars>>

\* process_single_page: exception e raised in the try body (attempt 1: the
\* handlers of lines 124-138) or in the fallback (attempt 2: it leaves
\* process_single_page and extract_pdf_multi, and run_ocr answers).
MetaRaise(e) ==
    IF attempt = 1
    THEN IF RetriesOn(e)
         THEN /\ attempt' = 2
              /\ mainPc' = "meta_load"
              /\ UNCHANGED <<metadata_res, response>>
         ELSE /\ metadata_res' = ErrorResult(e)
              /\ mainPc' = "meta_fields"
              /\ UNCHANGED <<attempt, response>>
    ELSE /\ Abort(e)
         /\ UNCHANGED <<attempt, metadata_res>>

\* process_single_page, line 118 (attempt 1) and line 129 (attempt 2):
\* load_image on the first page.
MetaLoad ==
    /\ mainPc = "meta_load"
    /\ \E o \in LoadOutcomes :
          IF o.exc
          THEN MetaRaise(o.e)
          ELSE /\ mainPc' = "meta_infer"
               /\ UNCHANGED <<attempt, metadata_res, response>>
    /\ UNCHANGED <<envVars, prodVars, total, doc_type, envelope_id,
                   total_pages_in_doc, page_results, processed, cur,
                   inferring, calls, normVars, tileVars,
                   ctxVars>>

\* process_single_page, lines 120 and 131: ai_analysis is entered.
MetaInferBegin ==
    /\ mainPc = "meta_infer"
    /\ inferring' = Append(inferring, [kind |-> "meta", page |-> start_page])
    /\ mainPc' = "meta_wait"
    /\ UNCHANGED <<envVars, prodVars, total, attempt, metadata_res, doc_type,
                   envelope_id, total_pages_in_doc, page_results, processed,
                   cur, calls, response, normVars, tileVars,
                   ctxVars>>

\* parsed is normalized and returned as a plain success, whatever the attempt.
MetaReturnSuccess(parsed) ==
    IF NormalizeRaises(parsed)
    THEN MetaRaise(NormalizeError(parsed))
    ELSE /\ metadata_res' = PageResult(sSuccess, normalize_extracted_data(parsed))
         /\ mainPc' = "meta_fields"
         /\ UNCHANGED <<attempt, response>>

\* process_single_page, lines 121-122 and 132-133: parsed is normalized and
\* returned with the status of the attempt.
MetaReturn(parsed) ==
    IF NormalizeRaises(parsed)
    THEN MetaRaise(NormalizeError(parsed))
    ELSE /\ metadata_res' =
               PageResult(IF attempt = 1 THEN sSuccess ELSE sSuccessFallback,
                          normalize_extracted_data(parsed))
         /\ mainPc' = "meta_fields"
         /\ UNCHANGED <<attempt, response>>

\* process_single_page, lines 120-122 and 131-133: ai_analysis returns or
\* raises; its result is normalized and returned.
MetaInferEnd ==
    /\ mainPc = "meta_wait"
    /\ inferring' = SubSeq(inferring, 1, Len(inferring) - 1)
    /\ \E o \in ChatOutcomes :
          /\ calls' = Append(calls, [kind |-> "meta", page |-> start_page,
                                     max_num |-> MaxNum(attempt), out |-> o])
          /\ IF o.exc
             THEN MetaRaise(o.e)
             ELSE MetaReturn(ai_analysis(o.text).parsed)
    /\ UNCHANGED <<envVars, prodVars, total, doc_type, envelope_id,
                   total_pages_in_doc, page_results, processed, cur, normVars, tileVars,
                   ctxVars>>

\* extract_pdf_multi, lines 194-218: the document fields are read from the
\* metadata; page_results and the queue are created.
MetadataFields ==
    /\ mainPc = "meta_fields"
    /\ LET metadata == metadata_res.d[sData]
       IN  /\ doc_type' = DocType(metadata)
           /\ envelope_id' = DictGet(metadata, sEnvelopeId, JNull)
           /\ total_pages_in_doc' = ParsedTotalPages(metadata, total)
    /\ page_results' = <<>>
    /\ mainPc' = "start_thread"
    /\ UNCHANGED <<envVars, prodVars, total, attempt, metadata_res, processed,
                   cur, inferring, calls, response, normVars, tileVars,
                   ctxVars>>

\* The preprocessor thread started while the metadata inference is running.
StartThreadEarly ==
    /\ mainPc \in {"meta_wait", "start_thread"}
    /\ prodPc = "unstarted"
    /\ prodPc' = "load"
    /\ prodIdx' = 1
    /\ mainPc' = IF mainPc = "start_thread" THEN "get" ELSE mainPc
    /\ UNCHANGED <<envVars, inHand, preprocessed_queue, total, attempt,
                   metadata_res, doc_type, envelope_id, total_pages_in_doc,
                   page_results, processed, cur, inferring, calls, response,
                   normVars, tileVars,
                   ctxVars>>

\* extract_pdf_multi, lines 232-233: the preprocessor thread is started.
StartThread ==
    /\ mainPc = "start_thread"
    /\ prodPc = "unstarted"
    /\ prodPc' = "load"
    /\ prodIdx' = 1
    /\ mainPc' = "get"
    /\ UNCHANGED <<envVars, inHand, preprocessed_queue, total, attempt,
                   metadata_res, doc_type, envelope_id, total_pages_in_doc,
                   page_results, processed, cur, inferring, calls, response,
                   normVars, tileVars,
                   ctxVars>>

\* preprocessor_worker, lines 221-229: page prodIdx is preprocessed; the item
\* to enqueue holds its tensor, or None where load_image raised.
Preprocess ==
    /\ prodPc = "load"
    /\ \E ok \in BOOLEAN :
          inHand' = [page_idx |-> start_page + prodIdx - 1,
                     pv |-> IF ok THEN "tensor" ELSE "None"]
    /\ prodPc' = "put"
    /\ UNCHANGED <<envVars, mainVars, prodIdx, preprocessed_queue, inferring,
                   calls, normVars, tileVars,
                   ctxVars>>

\* A queue without a capacity.
CanPutAlways(q) == TRUE

\* Queue.put: blocks while the queue is full.
CanPut(q) == Len(q) < QueueMaxsize

\* preprocessor_worker, lines 226 and 229: the item is enqueued, and the
\* loop goes on to the next page or ends.
QueuePut ==
    /\ prodPc = "put"
    /\ CanPut(preprocessed_queue)
    /\ preprocessed_queue' = Append(preprocessed_queue, inHand)
    /\ inHand' = JNull
    /\ prodIdx' = prodIdx + 1
    /\ prodPc' = IF prodIdx = total THEN "done" ELSE "load"
    /\ UNCHANGED <<envVars, mainVars, inferring, calls, normVars, tileVars,
                   ctxVars>>

\* A get that leaves the item in the queue.
DequeueKeeping(q) == [item |-> Head(q), rest |-> q]

\* Queue.get: the item taken and the items left.
Dequeue(q) == [item |-> Head(q), rest |-> Tail(q)]

\* Line 280 and the loop of line 237: page_data is appended; the loop goes
\* on, or ends after len(pages) iterations.
Emit(page_data) ==
    /\ page_results' = Append(page_results, page_data)
    /\ processed' = processed + 1
    /\ mainPc' = IF processed + 1 = total THEN "assemble" ELSE "get"

\* extract_pdf_multi, lines 241-248: an item is dequeued (blocking while
\* the queue is empty); a page whose preprocessing failed is recorded.
QueueGet ==
    /\ mainPc = "get"
    /\ preprocessed_queue # <<>>
    /\ LET got == Dequeue(preprocessed_queue)
       IN  /\ preprocessed_queue' = got.rest
           /\ IF got.item.pv = "None"
              THEN /\ Emit(PreprocessingFailedRecord(got.item.page_idx))
                   /\ UNCHANGED cur
              ELSE /\ cur' = got.item
                   /\ mainPc' = "infer"
                   /\ UNCHANGED <<page_results, processed>>
    /\ UNCHANGED <<envVars, prodPc, prodIdx, inHand, total, attempt,
                   metadata_res, doc_type, envelope_id, total_pages_in_doc,
                   inferring, calls, response, normVars, tileVars,
                   ctxVars>>

\* extract_pdf_multi, line 252: ai_analysis is entered for the page.
PageInferBegin ==
    /\ mainPc = "infer"
    /\ inferring' = Append(inferring, [kind |-> "page", page |-> cur.page_idx])
    /\ mainPc' = "wait"
    /\ UNCHANGED <<envVars, prodVars, total, attempt, metadata_res, doc_type,
                   envelope_id, total_pages_in_doc, page_results, processed,
                   cur, calls, response, normVars, tileVars,
                   ctxVars>>

\* extract_pdf_multi, lines 252-280: ai_analysis returns or raises, and the
\* page's record is appended.
PageInferEnd ==
    /\ mainPc = "wait"
    /\ inferring' = SubSeq(inferring, 1, Len(inferring) - 1)
    /\ \E o \in ChatOutcomes :
          /\ calls' = Append(calls, [kind |-> "page", page |-> cur.page_idx,
                                     max_num |-> MaxNum(1), out |-> o])
          /\ IF o.exc
             THEN Emit(PageDataOfException(cur.page_idx, o.e))
             ELSE Emit(PageDataOfResponse(cur.page_idx, o.text))
    /\ cur' = JNull
    /\ UNCHANGED <<envVars, prodVars, total, attempt, metadata_res, doc_type,
                   envelope_id, total_pages_in_doc, response, normVars, tileVars,
                   ctxVars>>

\* extract_pdf_multi, lines 286-312, and run_ocr, line 141: the records are
\* sorted and the Document Record is returned; a sort that cannot compare
\* two page keys raises, and run_ocr answers 500.
Assemble ==
    /\ mainPc = "assemble"
    /\ IF SortRaises(page_results)
       THEN /\ Abort(SortTypeError)
            /\ UNCHANGED page_results
       ELSE /\ page_results' = SortByPage(page_results)
            /\ response' =
                 Response(200,
                          FinalDocument(doc_type, envelope_id, total_pages_in_doc,
                                        total, start_page, end_page,
                                        page_results'))
            /\ mainPc' = "done"
    /\ UNCHANGED <<envVars, prodVars, total, attempt, metadata_res, doc_type,
                   envelope_id, total_pages_in_doc, processed, cur, inferring,
                   calls, normVars, tileVars,
                   ctxVars>>

Next ==
    \/ RunOcrProxy
    \/ RunOcrLocal
    \/ Render
    \/ MetaLoad
    \/ MetaInferBegin
    \/ MetaInferEnd
    \/ MetadataFields
    \/ StartThread
    \/ Preprocess
    \/ QueuePut
    \/ QueueGet
    \/ PageInferBegin
    \/ PageInferEnd
    \/ Assemble

-----------------------------------------------------------------------------
(* Python floats are binary64, rounded to nearest, ties to even.  A        *)
(* positive float is [e, m]: m holds its 53 significand bits, the first    *)
(* one 1, and its value is m * 2^(e - 52).  dynamic_preprocess meets       *)
(* positive floats, zero and float("inf") only.                            *)

SignificandBits == 53

FZero == [e |-> 0, m |-> <<>>]

FInf == [e |-> 1024, m |-> <<>>]

Zeros(n) == [i \in 1..n |-> 0]

\* p / q brought into [1, 2) by a power of two.
RECURSIVE Scaled(_, _, _)
Scaled(p, q, e) ==
    IF p < q THEN Scaled(2 * p, q, e - 1)
    ELSE IF p >= 2 * q THEN Scaled(p, 2 * q, e + 1)
    ELSE [p |-> p, q |-> q, e |-> e]

\* 2^k % q
RECURSIVE Pow2Mod(_, _)
Pow2Mod(k, q) ==
    IF k = 0 THEN 1 % q
    ELSE IF k % 2 = 0 THEN (Pow2Mod(k \div 2, q) * Pow2Mod(k \div 2, q)) % q
    ELSE (2 * Pow2Mod(k - 1, q)) % q

\* The remainder of the long division of p by q (q <= p < 2q) after k bits.
Remainder(p, q, k) == ((p % q) * Pow2Mod(k - 1, q)) % q

\* The first n bits of p / q, and the remainder after them.
DivBits(p, q, n) ==
    [m |-> [k \in 1..n |-> IF k = 1 \/ 2 * Remainder(p, q, k - 1) >= q THEN 1 ELSE 0],
     r |-> Remainder(p, q, n)]

\* m + 1; a carry out of the first bit moves the exponent.
Incremented(m, e) ==
    IF \A i \in 1..Len(m) : m[i] = 1
    THEN [e |-> e + 1, m |-> [i \in 1..Len(m) |-> IF i = 1 THEN 1 ELSE 0]]
    ELSE [e |-> e,
          m |-> [i \in 1..Len(m) |->
                    IF \E j \in (i + 1)..Len(m) : m[j] = 0 THEN m[i]
                    ELSE 1 - m[i]]]

Rounded(e, m, up) ==
    IF up THEN Incremented(m, e) ELSE [e |-> e, m |-> m]

DivRounded(e, d, q) ==
    Rounded(e, d.m, 2 * d.r > q \/ (2 * d.r = q /\ d.m[Len(d.m)] = 1))

FDivScaled(s) ==
    DivRounded(s.e, DivBits(s.p, s.q, SignificandBits), s.q)

\* int / int for positive ints: the correctly rounded quotient.
FDiv(p, q) == FDivScaled(Scaled(p, q, 0))

BitsLess(a, b) ==
    \E i \in 1..Len(a) : a[i] < b[i] /\ \A j \in 1..(i - 1) : a[j] = b[j]

\* x < y
FLess(x, y) ==
    IF y = FZero \/ x = FInf THEN FALSE
    ELSE IF x = FZero \/ y = FInf THEN TRUE
    ELSE x.e < y.e \/ (x.e = y.e /\ BitsLess(x.m, y.m))

\* b - s on bit strings of one length, b >= s: bit i borrows when the bits
\* after it hold less in b than in s.
SubBits(b, s) ==
    [i \in 1..Len(b) |->
        (b[i] - s[i] + 2
           - (IF \E j \in (i + 1)..Len(b) :
                    b[j] < s[j] /\ \A k \in (i + 1)..(j - 1) : b[k] = s[k]
              THEN 1 ELSE 0)) % 2]

LeadingZeros(d) ==
    IF \A i \in 1..Len(d) : d[i] = 0 THEN Len(d)
    ELSE (CHOOSE i \in 1..Len(d) : d[i] = 1 /\ \A j \in 1..(i - 1) : d[j] = 0) - 1

\* The float nearest to d * 2^unit, k being the number of leading zeros of d.
Normalized(d, k, unit) ==
    IF k = Len(d) THEN FZero
    ELSE IF Len(d) - k <= SignificandBits
    THEN [e |-> unit + Len(d) - k - 1,
          m |-> SubSeq(d, k + 1, Len(d)) \o Zeros(SignificandBits - (Len(d) - k))]
    ELSE Rounded(unit + Len(d) - k - 1, SubSeq(d, k + 1, k + SignificandBits),
                 /\ d[k + SignificandBits + 1] = 1
                 /\ \/ d[k + SignificandBits] = 1
                    \/ \E j \in (k + SignificandBits + 2)..Len(d) : d[j] = 1)

NormalizedBits(d, unit) == Normalized(d, LeadingZeros(d), unit)

\* big - small for floats big >= small > 0.
FSubOrdered(big, small) ==
    NormalizedBits(SubBits(big.m \o Zeros(big.e - small.e),
                           Zeros(big.e - small.e) \o small.m),
                   small.e - (SignificandBits - 1))

\* abs(x - y) for positive floats.
FAbsDiff(x, y) == IF FLess(x, y) THEN FSubOrdered(y, x) ELSE FSubOrdered(x, y)

-----------------------------------------------------------------------------
(* pdf_extract.py: find_closest_aspect_ratio and dynamic_preprocess.       *)

image_size == 448

\* The grids (i, j) with i * j = p, by increasing i.
RECURSIVE GridsOfProduct(_, _)
GridsOfProduct(p, i) ==
    IF i > p THEN <<>>
    ELSE (IF p % i = 0 THEN <<<<i, p \div i>>>> ELSE <<>>) \o GridsOfProduct(p, i + 1)

\* sorted({(i, j) ... if 1 <= i * j <= max_num}, key=lambda x: x[0] * x[1]):
\* the grids by increasing product.  The sort is stable, so grids of one
\* product come in the iteration order of the set, which the key does not
\* fix; Closer accounts for every such order.
RECURSIVE target_ratios(_, _)
target_ratios(p, budget) ==
    IF p > budget THEN <<>>
    ELSE GridsOfProduct(p, 1) \o target_ratios(p + 1, budget)

\* One iteration of the loop of find_closest_aspect_ratio.  acc.best is the
\* set of grids that best may hold: a grid as close as the best one and of
\* its product comes before it in some iteration order of the set.
Closer(acc, r, diff) ==
    IF FLess(diff, acc.best_diff) THEN [best_diff |-> diff, best |-> {r}]
    ELSE IF diff = acc.best_diff /\ \E b \in acc.best : b[1] * b[2] = r[1] * r[2]
    THEN [best_diff |-> diff, best |-> acc.best \cup {r}]
    ELSE acc

\* The loop from ratios[i] on.  Once best_diff is 0.0 no later grid is
\* closer, and none of the same product is as close, so best is final.
RECURSIVE ClosestFrom(_, _, _, _)
ClosestFrom(aspect_ratio, ratios, i, acc) ==
    IF i > Len(ratios) \/ acc.best_diff = FZero THEN acc.best
    ELSE ClosestFrom(aspect_ratio, ratios, i + 1,
                     Closer(acc, ratios[i],
                            FAbsDiff(aspect_ratio, FDiv(ratios[i][1], ratios[i][2]))))

\* The grids find_closest_aspect_ratio may return.
find_closest_aspect_ratio(aspect_ratio, ratios) ==
    ClosestFrom(aspect_ratio, ratios, 1, [best_diff |-> FInf, best |-> {<<1, 1>>}])

\* The box of crop i of the resized image, tw wide.
Box(i, tw) ==
    <<(i % (tw \div image_size)) * image_size,
      (i \div (tw \div image_size)) * image_size,
      ((i % (tw \div image_size)) + 1) * image_size,
      ((i \div (tw \div image_size)) + 1) * image_size>>

\* resized.crop(box) for each block, resized being tw x th.
Crops(tw, th, blocks) ==
    [i \in 1..blocks |-> [of |-> "resized", size |-> <<tw, th>>, box |-> Box(i - 1, tw)]]

\* A thumbnail appended whatever the number of crops.
ThumbnailAlways(ow, oh, c) ==
    Append(c, [of |-> "image", size |-> <<image_size, image_size>>,
               box |-> <<0, 0, ow, oh>>])

\* image.resize((image_size, image_size)), appended unless there is one crop.
WithThumbnail(ow, oh, c) ==
    IF Len(c) # 1
    THEN Append(c, [of |-> "image", size |-> <<image_size, image_size>>,
                    box |-> <<0, 0, ow, oh>>])
    ELSE c

\* What dynamic_preprocess may choose and return, use_thumbnail being True.
dynamic_preprocess(ow, oh, budget) ==
    {[best |-> b,
      crops |-> WithThumbnail(ow, oh, Crops(image_size * b[1], image_size * b[2],
                                            b[1] * b[2]))] :
        b \in find_closest_aspect_ratio(FDiv(ow, oh), target_ratios(1, budget))}

TileIdle ==
    /\ tilePc = "idle"
    /\ image = <<1, 1>>
    /\ max_num = 12
    /\ best = <<1, 1>>
    /\ crops = <<>>

-----------------------------------------------------------------------------
(* backend/inference.py: the process-wide context cache _CTX, with         *)
(* load_context, get_context and clear_gpu.  None is JNull.                *)

\* InferenceContext(model=model, tokenizer=tokenizer); each call of
\* from_pretrained returns a new object, told apart by its number.
InferenceContext(model, tokenizer) == [model |-> model, tokenizer |-> tokenizer]

\* A cache test that never finds a context.
NeverCached(ctx) == FALSE

\* Line 67: _CTX is not None.
Cached(ctx) == ctx # JNull

\* What the loading of lines 70-105 may do: the tokenizer fails to load; the
\* model loads with 4-bit quantization; that fails and the model loads
\* without it; or both attempts fail.
ModelLoadOutcomes == {"tokenizer_raises", "quantized", "unquantized", "model_raises"}

eLoadFailed ==
    Exc("OSError", <<"c", "a", "n", "n", "o", "t", " ", "l", "o", "a", "d">>)

\* An entry of ctx_log: the call, _CTX before and after it, whether it
\* loaded (lines 70-105 were entered), and what it returned or raised.
CtxCall(op, before, after, loading, ret, e) ==
    [op |-> op, before |-> before, after |-> after, loading |-> loading,
     raised |-> e # JNull, ret |-> ret, e |-> e]

\* load_context, lines 61-114, called as op.
LoadContextAs(op) ==
    IF disable_local
    THEN /\ ctx_log' = Append(ctx_log, CtxCall(op, _CTX, _CTX, FALSE, JNull,
                                               ModelNotLoadedError))
         /\ UNCHANGED <<_CTX, loads>>
    ELSE IF Cached(_CTX)
    THEN /\ ctx_log' = Append(ctx_log, CtxCall(op, _CTX, _CTX, FALSE, _CTX, JNull))
         /\ UNCHANGED <<_CTX, loads>>
    ELSE \E o \in ModelLoadOutcomes :
            IF o \in {"tokenizer_raises", "model_raises"}
            THEN /\ ctx_log' = Append(ctx_log, CtxCall(op, _CTX, _CTX, TRUE, JNull,
                                                       eLoadFailed))
                 /\ UNCHANGED <<_CTX, loads>>
            ELSE /\ _CTX' = InferenceContext(<<o, loads + 1>>, loads + 1)
                 /\ loads' = loads + 1
                 /\ ctx_log' = Append(ctx_log, CtxCall(op, _CTX, _CTX', TRUE, _CTX',
                                                       JNull))

CtxIdle ==
    /\ _CTX = JNull
    /\ loads = 0
    /\ ctx_log = <<>>

-----------------------------------------------------------------------------
(* The normalizer driven on its own: normalize_extracted_data applied to   *)
(* an input, then to its own result.                                       *)

MaxListLen == 2

kA == <<"a">>
kB == <<"b">>
kC == <<"c">>
kE == <<"e">>
kT == <<"t">>
sX == <<"x">>
sS == <<"S">>

SeqsUpTo(S, n) == UNION {[1..k -> S] : k \in 0..n}

\* A key that is absent, or present with one of the values Vs.
OptField(k, Vs) == {{}} \cup {{<<k, v>>} : v \in Vs}

Atoms ==
    {JNull, JStr(<<>>), JStr(sNA), JStr(sX), JNum(0), JNum(1),
     JBool(FALSE), JBool(TRUE)}

Vals1 ==
    Atoms
    \cup {JList(l) : l \in SeqsUpTo(Atoms, MaxListLen)}
    \cup {MkDict(b) : b \in OptField(kB, Atoms)}

\* Elements of the nested lists: empty and non-empty values of every shape.
Nested ==
    {JNull, JStr(<<>>), JStr(sX), JNum(0), JList(<<>>), JDict(<<>>),
     JList(<<JStr(<<>>)>>), MkDict({<<kB, JStr(<<>>)>>}),
     MkDict({<<kB, JStr(sX)>>})}

Vals2 ==
    Vals1
    \cup {JList(l) : l \in SeqsUpTo(Nested, MaxListLen)}
    \cup {MkDict({<<kB, v>>}) : v \in Vals1}

SectionVals == {JStr(sS), JStr(<<>>), JNull}

Row(k) == MkDict({<<k, JNum(1)>>})
Table(k) == MkDict({<<kT, JList(<<Row(k)>>)>>})

FormFieldVals ==
    {JDict(<<>>),
     MkDict({<<kC, JList(<<JNum(1)>>)>>}),
     MkDict({<<kC, JStr(sX)>>}),
     MkDict({<<kE, JList(<<JNum(1)>>)>>}),
     MkDict({<<kC, JList(<<JNum(1)>>)>>, <<kE, JStr(sX)>>}),
     MkDict({<<kC, JList(<<JNum(1)>>)>>, <<kE, JList(<<JStr(<<>>)>>)>>}),
     JList(<<JNum(1)>>),
     JStr(sX),
     JNull}

TablesVals ==
    {JDict(<<>>),
     Table(kC),
     MkDict({<<kT, JList(<<>>)>>}),
     MkDict({<<kT, JList(<<JStr(sX), Row(kC)>>)>>}),
     MkDict({<<kT, JList(<<Row(kE), Row(kC)>>)>>}),
     MkDict({<<kT, Row(kC)>>}),
     MkDict({<<kT, JList(<<Row(kC)>>)>>, <<kA, JList(<<Row(kE)>>)>>}),
     JList(<<>>),
     JList(<<Table(kC)>>),
     JList(<<Table(kC), Table(kE)>>),
     JList(<<Table(kC), JStr(sX)>>),
     JList(<<JStr(sX)>>),
     JStr(sX),
     JNull}

NormInputs ==
    Vals1
    \cup {MkDict(s \cup a) :
            s \in OptField(sSection, SectionVals), a \in OptField(kA, Vals2)}
    \cup {MkDict(s \cup f \cup tb \cup a) :
            s \in OptField(sSection, {JStr(sS)}),
            f \in OptField(sFormFields, FormFieldVals),
            tb \in OptField(sTables, TablesVals),
            a \in OptField(kA, {JNum(0)})}

\* What a call of normalize_extracted_data does: raise, or return a value.
NormOutcome(x) ==
    IF NormalizeRaises(x)
    THEN [raised |-> TRUE]
    ELSE [raised |-> FALSE, val |-> normalize_extracted_data(x)]

NormInit ==
    /\ PipelineIdle
    /\ TileIdle
    /\ CtxIdle
    /\ disable_local = FALSE
    /\ remote_url = FALSE
    /\ start_page = 1
    /\ end_page = 0
    /\ texts = {}
    /\ errors = {}
    /\ normPc = "start"
    /\ normIn \in NormInputs
    /\ normOnce = JNull
    /\ normTwice = JNull

NormFirst ==
    /\ normPc = "start"
    /\ normOnce' = NormOutcome(normIn)
    /\ normPc' = "once"
    /\ UNCHANGED <<normIn, normTwice, envVars, mainVars, prodVars, inferring, calls,
                   tileVars,
                   ctxVars>>

NormSecond ==
    /\ normPc = "once"
    /\ ~normOnce.raised
    /\ normTwice' = NormOutcome(normOnce.val)
    /\ normPc' = "twice"
    /\ UNCHANGED <<normIn, normOnce, envVars, mainVars, prodVars, inferring, calls,
                   tileVars,
                   ctxVars>>

NormNext == NormFirst \/ NormSecond

SpecNorm == NormInit /\ [][NormNext]_vars

-----------------------------------------------------------------------------
(* The requests.                                                           *)

NormIdle ==
    /\ normPc = "idle"
    /\ normIn = JNull
    /\ normOnce = JNull
    /\ normTwice = JNull

\* A deployment and a request: REMOTE_OCR_URL is read only where
\* DISABLE_MODEL_LOAD=1.
Requests ==
    /\ disable_local \in BOOLEAN
    /\ remote_url \in BOOLEAN
    /\ remote_url => disable_local
    /\ start_page \in {1, 2}
    /\ end_page \in 0..MaxPages

\* Requests for any page range, against a model that answers with a text
\* that is not JSON or with an object, or runs out of memory.
Init ==
    /\ PipelineIdle
    /\ NormIdle
    /\ TileIdle
    /\ CtxIdle
    /\ Requests
    /\ texts = {rNotJson, rPaged, rPagedStr}
    /\ errors = {eCudaOom}

Spec == Init /\ [][Next]_vars

AllTexts ==
    {rEmpty, rNotJson, rPaged, rPagedStr, rNumber, rList, rNull, rFenced,
     rNoSection, rBadFields, rMeta, rMetaWords, rMetaList, rLong}

AllErrors == {eCudaOom, eOutOfMemory, eRuntime, eValue}

\* Requests for one page, against the whole repertoire.
InitPage ==
    /\ PipelineIdle
    /\ NormIdle
    /\ TileIdle
    /\ CtxIdle
    /\ Requests
    /\ end_page = start_page
    /\ texts = AllTexts
    /\ errors = AllErrors

SpecPage == InitPage /\ [][Next]_vars

\* Requests for any page range, against a model that answers with an object
\* or raises an error that is not an out-of-memory RuntimeError.
InitErrors ==
    /\ PipelineIdle
    /\ NormIdle
    /\ TileIdle
    /\ CtxIdle
    /\ Requests
    /\ texts = {rNoSection}
    /\ errors = {eRuntime, eValue}

SpecErrors == InitErrors /\ [][Next]_vars

\* The steps of the main thread, and those of the preprocessor_worker thread.
MainThread ==
    \/ RunOcrProxy \/ RunOcrLocal \/ Render \/ MetaLoad \/ MetaInferBegin
    \/ MetaInferEnd \/ MetadataFields \/ StartThread \/ QueueGet
    \/ PageInferBegin \/ PageInferEnd \/ Assemble

PreprocessorThread == Preprocess \/ QueuePut

\* Requests for any page range where both threads are scheduled fairly and
\* every call of load_image and ai_analysis returns or raises: a thread that
\* can take a step does not wait forever.
InitFair ==
    /\ PipelineIdle
    /\ NormIdle
    /\ TileIdle
    /\ CtxIdle
    /\ Requests
    /\ texts = {rNoSection}
    /\ errors = {eRuntime}

SpecFair ==
    /\ InitFair
    /\ [][Next]_vars
    /\ WF_vars(MainThread)
    /\ WF_vars(PreprocessorThread)

-----------------------------------------------------------------------------
(* dynamic_preprocess on its own: every image size and tile budget within  *)
(* the bounds.                                                             *)

MaxSide == 12

MaxBudget == 12

TileInit ==
    /\ PipelineIdle
    /\ NormIdle
    /\ CtxIdle
    /\ disable_local = FALSE
    /\ remote_url = FALSE
    /\ start_page = 1
    /\ end_page = 0
    /\ texts = {}
    /\ errors = {}
    /\ tilePc = "start"
    /\ image \in (1..MaxSide) \X (1..MaxSide)
    /\ max_num \in 1..MaxBudget
    /\ best = <<1, 1>>
    /\ crops = <<>>

DynamicPreprocess ==
    /\ tilePc = "start"
    /\ \E out \in dynamic_preprocess(image[1], image[2], max_num) :
        /\ best' = out.best
        /\ crops' = out.crops
    /\ tilePc' = "done"
    /\ UNCHANGED <<image, max_num, envVars, mainVars, prodVars, inferring, calls,
                   normVars, ctxVars>>

SpecTile == TileInit /\ [][DynamicPreprocess]_vars

-----------------------------------------------------------------------------
(* The context cache on its own: every sequence of calls of load_context,  *)
(* get_context and clear_gpu within the bound, in a process started with   *)
(* or without DISABLE_MODEL_LOAD=1.                                        *)

MaxCalls == 5

CtxInit ==
    /\ PipelineIdle
    /\ NormIdle
    /\ TileIdle
    /\ CtxIdle
    /\ disable_local \in BOOLEAN
    /\ remote_url = FALSE
    /\ start_page = 1
    /\ end_page = 0
    /\ texts = {}
    /\ errors = {}

LoadContext ==
    /\ Len(ctx_log) < MaxCalls
    /\ LoadContextAs("load_context")
    /\ UNCHANGED <<envVars, mainVars, prodVars, inferring, calls, normVars, tileVars>>

\* get_context, lines 117-121: return load_context().
GetContext ==
    /\ Len(ctx_log) < MaxCalls
    /\ LoadContextAs("get_context")
    /\ UNCHANGED <<envVars, mainVars, prodVars, inferring, calls, normVars, tileVars>>

\* clear_gpu, lines 161-169.
ClearGpu ==
    /\ Len(ctx_log) < MaxCalls
    /\ _CTX' = JNull
    /\ ctx_log' = Append(ctx_log, CtxCall("clear_gpu", _CTX, JNull, FALSE, JNull, JNull))
    /\ UNCHANGED <<loads, envVars, mainVars, prodVars, inferring, calls, normVars,
                   tileVars>>

CtxNext == LoadContext \/ GetContext \/ ClearGpu

SpecCtx == CtxInit /\ [][CtxNext]_vars

-----------------------------------------------------------------------------
(* Properties of the page pipeline.                                        *)

\* The local path has returned the Document Record.
Returned ==
    mainPc = "done" /\ response.status = 200 /\ ~(disable_local /\ remote_url)

ReturnedPages == response.content.d[sPages].l

IsErrorRecord(rec, msg) ==
    /\ rec.d[sSection] = JStr(sError)
    /\ sErrorMessage \in DOMAIN rec.d
    /\ rec.d[sErrorMessage] = JStr(msg)

\* C1: before the final sort, the i-th record appended to page_results
\* carries the page number start_page + i - 1, and when the loop has ended
\* there is one record for each rendered page.
C1_AppendedInPageOrder ==
    mainPc # "done" =>
        /\ \A i \in 1..Len(page_results) :
              page_results[i].d[sPage] = JNum(start_page + i - 1)
        /\ mainPc = "assemble" => Len(page_results) = total

\* C2: a returned Document Record has its pages sorted ascending by "page",
\* one record for each rendered page, and pages_processed equal to their
\* number.
C2_SortedAndComplete ==
    Returned =>
        /\ \A i \in 1..(Len(ReturnedPages) - 1) :
              /\ Comparable(PageKey(ReturnedPages[i]), PageKey(ReturnedPages[i + 1]))
              /\ ~PyLess(PageKey(ReturnedPages[i + 1]), PageKey(ReturnedPages[i]))
        /\ Len(ReturnedPages) = RenderedCount(start_page, end_page)
        /\ response.content.d[sDocument].d[sPagesProcessed]
             = JNum(Len(ReturnedPages))

\* A document of three or more pages is returned, with a page whose
\* preprocessing failed, a page whose inference ran out of memory, and a
\* page whose own "page" field moved its record to the end.
C2_Witness ==
    /\ Returned
    /\ Len(ReturnedPages) >= 3
    /\ \E i \in 1..Len(ReturnedPages) :
          IsErrorRecord(ReturnedPages[i], sPreprocessingFailed)
    /\ \E i \in 1..Len(ReturnedPages) :
          IsErrorRecord(ReturnedPages[i], eCudaOom.msg)
    /\ ReturnedPages[Len(ReturnedPages)].d[sSection] = JStr(<<"A">>)
    /\ \E c \in 1..Len(calls) :
          /\ calls[c].kind = "page"
          /\ calls[c].page = start_page
          /\ ~calls[c].out.exc
          /\ calls[c].out.text = rPaged

\* The inference of a page raised an error the fallback handler retries on.
RanOutOfMemory(c) ==
    c.kind = "page" /\ c.max_num = MaxNum(1) /\ c.out.exc /\ RetriesOn(c.out.e)

\* C3: a pipeline page whose first inference ran out of memory is inferred
\* again exactly once, with max_num 6, before its record is appended.
C3_OneRetryAtReducedBudget ==
    \A i \in 1..Len(calls) :
        RanOutOfMemory(calls[i]) =>
            Cardinality({j \in 1..Len(calls) :
                            /\ j > i
                            /\ calls[j].kind = "page"
                            /\ calls[j].page = calls[i].page
                            /\ calls[j].max_num = MaxNum(2)}) = 1

\* C4: when the first inference of process_single_page ran out of memory
\* and the inference of its fallback raised,
\* process_single_page has returned a result of status "error" with section
\* "ERROR" and an error_message, and the request has not been answered
\* with an error.
C4_FailedRetryIsRecorded ==
    \A i \in 2..Len(calls) :
        (/\ calls[i - 1].kind = "meta" /\ calls[i - 1].max_num = MaxNum(1)
         /\ calls[i - 1].out.exc /\ RetriesOn(calls[i - 1].out.e)
         /\ calls[i].kind = "meta" /\ calls[i].max_num = MaxNum(2)
         /\ calls[i].out.exc)
        => /\ metadata_res # JNull
           /\ metadata_res.d[sStatus] = JStr(sErrorStatus)
           /\ metadata_res.d[sData].d[sSection] = JStr(sError)
           /\ sErrorMessage \in DOMAIN metadata_res.d[sData].d
           /\ response.status \notin {500, 503}

\* C5: once an inference call has raised ModelNotLoadedError the request
\* has ended with the 503 response, and no page record holds the error.
C5_NotLoadedAbortsWith503 ==
    \A i \in 1..Len(calls) :
        (calls[i].out.exc /\ calls[i].out.e = ModelNotLoadedError)
        => /\ mainPc = "done"
           /\ response.status = 503
           /\ \A k \in 1..Len(page_results) :
                 ~IsErrorRecord(page_results[k], sModelLoadingDisabled)

\* C6 (state part): at most one call of ai_analysis is in progress; while
\* the metadata inference is in progress the preprocessor thread is not
\* started and no page has been inferred; while the inference of page k is
\* in progress the records of all earlier pages are appended and every call
\* that has ended was for the metadata or for an earlier page.
C6_OneAtATime ==
    /\ Len(inferring) <= 1
    /\ \A i \in 1..Len(inferring) :
          IF inferring[i].kind = "meta"
          THEN /\ prodPc = "unstarted"
               /\ page_results = <<>>
               /\ \A c \in 1..Len(calls) : calls[c].kind = "meta"
          ELSE /\ processed = inferring[i].page - start_page
               /\ Len(page_results) = processed
               /\ \A c \in 1..Len(calls) :
                     calls[c].kind = "page" => calls[c].page < inferring[i].page

\* A step of the preprocessor thread.
WorkerStep == prodPc \in {"load", "put"} /\ prodPc' # prodPc

\* C6: at most one inference call is in progress at any time, the metadata
\* inference ends before the preprocessor thread is started and before any
\* page inference, page inferences go in page order one after the other,
\* and no step of the preprocessor thread begins or ends an inference.
C6_InferenceIsSerial ==
    []C6_OneAtATime /\ [][WorkerStep => inferring' = inferring]_vars

\* The inference of the second page is in progress, after the metadata and
\* the first page were inferred, while the preprocessor thread works ahead.
C6_Witness ==
    /\ Len(inferring) = 1
    /\ inferring[1] = [kind |-> "page", page |-> start_page + 1]
    /\ prodPc \in {"load", "put"}
    /\ Len(calls) >= 2
    /\ calls[1].kind = "meta"
    /\ calls[Len(calls)].kind = "page"

\* The pages the preprocessor thread has finished preprocessing.
Preprocessed ==
    IF prodPc = "unstarted" THEN 0
    ELSE IF prodPc = "put" THEN prodIdx ELSE prodIdx - 1

\* The items the consumer has dequeued.
Dequeued == processed + (IF mainPc \in {"infer", "wait"} THEN 1 ELSE 0)

\* C7: the queue holds at most 2 items, the preprocessor thread cannot put
\* while it holds 2, and at most 3 preprocessed pages are not yet dequeued.
C7_QueueBounded ==
    /\ Len(preprocessed_queue) <= 2
    /\ Len(preprocessed_queue) = 2 => ~ENABLED QueuePut
    /\ Preprocessed - Dequeued <= 3

\* The queue is full and the preprocessor thread waits in put with a third
\* page, with further pages still to preprocess.
C7_Witness ==
    /\ Len(preprocessed_queue) = 2
    /\ prodPc = "put"
    /\ Preprocessed - Dequeued = 3
    /\ prodIdx < total

\* The text cannot be parsed into a JSON object.
NotAnObject(text) ==
    ~(try_parse_json_strict(text).is_json
      /\ IsDict(try_parse_json_strict(text).parsed))

\* C8: before the final sort, the record of every page whose inference
\* returned a text that is not a JSON object has section "ERROR" and an
\* error_message that contains the first 200 characters of the text.
C8_NonObjectIsError ==
    mainPc # "done" =>
        \A i \in 1..Len(calls) :
            (calls[i].kind = "page" /\ ~calls[i].out.exc
             /\ NotAnObject(calls[i].out.text))
            => /\ page_results[calls[i].page - start_page + 1].d[sSection]
                    = JStr(sError)
               /\ sErrorMessage
                    \in DOMAIN page_results[calls[i].page - start_page + 1].d
               /\ Contains(page_results[calls[i].page - start_page + 1]
                             .d[sErrorMessage].s,
                           Prefix(calls[i].out.text, RawExcerptLen))

-----------------------------------------------------------------------------
(* Properties of the normalizer.                                           *)

\* C9: normalizing the value normalize_extracted_data returned returns the
\* same value.
C9_Idempotent ==
    normPc = "twice" => ~normTwice.raised /\ normTwice.val = normOnce.val

IsSentinel(v) == v = JStr(sNA) \/ v = JNum(0) \/ v = JBool(FALSE)

IsEmptyValue(v) ==
    v = JNull \/ v = JStr(<<>>) \/ v = JList(<<>>) \/ v = JDict(<<>>)

\* No field at any depth of v holds null, "", [] or {}.
RECURSIVE NoEmptyField(_)
NoEmptyField(v) ==
    IF IsDict(v)
    THEN \A k \in DOMAIN v.d : ~IsEmptyValue(v.d[k]) /\ NoEmptyField(v.d[k])
    ELSE IF IsList(v)
    THEN \A i \in 1..Len(v.l) : NoEmptyField(v.l[i])
    ELSE TRUE

\* Every field of x that holds "N/A", 0 or false is a field of y with the
\* same value, at every depth of nested dicts.
RECURSIVE SentinelsKept(_, _)
SentinelsKept(x, y) ==
    IF IsDict(x) /\ IsDict(y)
    THEN \A k \in DOMAIN x.d :
            /\ IsSentinel(x.d[k]) => k \in DOMAIN y.d /\ y.d[k] = x.d[k]
            /\ k \in DOMAIN y.d => SentinelsKept(x.d[k], y.d[k])
    ELSE TRUE

\* C10: in the record normalize_extracted_data returns, the fields of the
\* input that hold "N/A", 0 or false are kept, and no field at any depth
\* holds null, "", [] or {}.
C10_SentinelsKeptEmptiesRemoved ==
    (normPc \in {"once", "twice"} /\ ~normOnce.raised) =>
        /\ SentinelsKept(normIn, normOnce.val)
        /\ NoEmptyField(normOnce.val)

\* C11: the record normalize_extracted_data returns has a "section" key,
\* which holds "UNKNOWN SECTION" when the input is not a dict, is empty or
\* has no section key.
C11_SectionAlwaysPresent ==
    (normPc \in {"once", "twice"} /\ ~normOnce.raised) =>
        /\ sSection \in DOMAIN normOnce.val.d
        /\ (~IsDict(normIn) \/ normIn = JDict(<<>>)
            \/ sSection \notin DOMAIN normIn.d)
           => normOnce.val.d[sSection] = JStr(sUnknownSection)

\* The input of the normalizer has both form_fields and tables, and its
\* form_fields is a dict.
HasFieldsAndTables(x) ==
    /\ IsDict(x)
    /\ sFormFields \in DOMAIN x.d
    /\ sTables \in DOMAIN x.d
    /\ IsDict(x.d[sFormFields])

\* The single map merging the maps of a list: each key with the value of the
\* last map that has it.
MergedMap(l) ==
    LET has(k) == {i \in 1..Len(l) : IsDict(l[i]) /\ k \in DOMAIN l[i].d}
        last(k) == CHOOSE i \in has(k) : \A j \in has(k) : j <= i
    IN  JDict([k \in UNION {DOMAIN l[i].d : i \in {j \in 1..Len(l) : IsDict(l[j])}}
                 |-> l[last(k)].d[k]])

\* The tables of the input, a list of maps taken as their merge.
TablesOf(x) ==
    IF IsList(x.d[sTables]) THEN MergedMap(x.d[sTables].l) ELSE x.d[sTables]

\* Form field k of the input is a duplicate: its value is a list and k is a
\* column key of the first row of a table that is a non-empty list of rows.
IsDuplicateField(x, k) ==
    /\ IsList(x.d[sFormFields].d[k])
    /\ IsDict(TablesOf(x))
    /\ \E n \in DOMAIN TablesOf(x).d :
          /\ IsList(TablesOf(x).d[n])
          /\ TablesOf(x).d[n].l # <<>>
          /\ IsDict(TablesOf(x).d[n].l[1])
          /\ k \in DOMAIN TablesOf(x).d[n].l[1].d

\* Form field k is in the record y.
HasFormField(y, k) ==
    sFormFields \in DOMAIN y.d /\ k \in DOMAIN y.d[sFormFields].d

-----------------------------------------------------------------------------
(* Properties of the tiling.                                               *)

Grids(budget) == {g \in (1..budget) \X (1..budget) : g[1] * g[2] <= budget}

AbsInt(n) == IF n < 0 THEN -n ELSE n

\* |g[1]/g[2] - w/h| <= |f[1]/f[2] - w/h|, in exact arithmetic: both sides
\* multiplied by g[2] * f[2] * h.
NoFarther(g, f, size) ==
    AbsInt(g[1] * size[2] - g[2] * size[1]) * f[2]
        <= AbsInt(f[1] * size[2] - f[2] * size[1]) * g[2]

\* C13: the grid dynamic_preprocess chooses is within the tile budget and
\* as close to the image's aspect ratio as any grid within the budget; no
\* grid at the same distance has a smaller cols*rows; and it is the only
\* grid dynamic_preprocess can choose for this image size and budget.
C13_ClosestGridSmallestProduct ==
    tilePc = "done" =>
        /\ best \in Grids(max_num)
        /\ \A g \in Grids(max_num) : NoFarther(best, g, image)
        /\ \A g \in Grids(max_num) :
            NoFarther(g, best, image) => best[1] * best[2] <= g[1] * g[2]
        /\ \A out \in dynamic_preprocess(image[1], image[2], max_num) :
            out.best = best

Disjoint(a, b) == a[3] <= b[1] \/ b[3] <= a[1] \/ a[4] <= b[2] \/ b[4] <= a[2]

Area(a) == (a[3] - a[1]) * (a[4] - a[2])

RECURSIVE SumArea(_, _)
SumArea(c, n) == IF n = 0 THEN 0 ELSE Area(c[n].box) + SumArea(c, n - 1)

\* C14: dynamic_preprocess returns cols*rows tiles, and one more when
\* cols*rows > 1; tile i of the first cols*rows is the crop of the resized
\* image (tile_size*cols by tile_size*rows) at column (i-1) mod cols and row
\* (i-1) div cols; these crops lie inside the resized image, are pairwise
\* disjoint and their areas add up to its area; the extra tile is the whole
\* image resized, and is last.
C14_TilesAreTheGridCells ==
    tilePc = "done" =>
        LET cols == best[1]
            rows == best[2]
        IN  /\ Len(crops) = cols * rows + (IF cols * rows > 1 THEN 1 ELSE 0)
            /\ \A i \in 1..(cols * rows) :
                /\ crops[i].of = "resized"
                /\ crops[i].size = <<image_size * cols, image_size * rows>>
                /\ crops[i].box = <<((i - 1) % cols) * image_size,
                                    ((i - 1) \div cols) * image_size,
                                    ((i - 1) % cols) * image_size + image_size,
                                    ((i - 1) \div cols) * image_size + image_size>>
                /\ crops[i].box[1] >= 0 /\ crops[i].box[2] >= 0
                /\ crops[i].box[3] <= image_size * cols
                /\ crops[i].box[4] <= image_size * rows
            /\ \A i, j \in 1..(cols * rows) :
                i # j => Disjoint(crops[i].box, crops[j].box)
            /\ SumArea(crops, cols * rows) = (image_size * cols) * (image_size * rows)
            /\ cols * rows > 1 =>
                /\ crops[cols * rows + 1].of = "image"
                /\ crops[cols * rows + 1].box = <<0, 0, image[1], image[2]>>

\* A 7 x 12 image within a budget of 6: two columns, three rows, a thumbnail.
C14_Witness ==
    /\ tilePc = "done"
    /\ image = <<7, 12>>
    /\ max_num = 6
    /\ best = <<2, 3>>
    /\ Len(crops) = 7
    /\ crops[4].box = <<image_size, image_size, 2 * image_size, 2 * image_size>>

\* C15: a returned Document Record has the page numbers start_page,
\* start_page + 1, ... one for each rendered page, in this order, and its
\* page_range is "<start_page>-<end_page>" with the requested values, "end"
\* standing for an end_page that was not given.
C15_PageNumbersAndRange ==
    Returned =>
        /\ Len(ReturnedPages) = total
        /\ \A i \in 1..Len(ReturnedPages) :
              ReturnedPages[i].d[sPage] = JNum(start_page + i - 1)
        /\ response.content.d[sDocument].d[sPageRange]
             = JStr(IntToStr(start_page) \o <<"-">>
                    \o (IF end_page = 0 THEN <<"e", "n", "d">> ELSE IntToStr(end_page)))

\* The metadata's total_pages_in_doc, None when it has none.
MetadataTotalPages == DictGet(metadata_res.d[sData], sTotalPagesInDoc, JNull)

\* C16: total_pages_from_document of a returned Document Record is an
\* integer: the integer N when the metadata's total_pages_in_doc is a text
\* that ends in N, and the number of rendered pages when the metadata has no
\* total_pages_in_doc or has one that is not a text ending in an integer.
C16_TotalPagesIsInteger ==
    Returned =>
        /\ response.content.d[sDocument].d[sTotalPagesFromDocument].t = "num"
        /\ (IsStr(MetadataTotalPages) /\ TrailingDigits(MetadataTotalPages.s) # <<>>)
            => response.content.d[sDocument].d[sTotalPagesFromDocument]
                 = JNum(DigitsToNat(TrailingDigits(MetadataTotalPages.s)))
        /\ (~IsStr(MetadataTotalPages) \/ TrailingDigits(MetadataTotalPages.s) = <<>>)
            => response.content.d[sDocument].d[sTotalPagesFromDocument] = JNum(total)

\* process_single_page has returned a result.
MetaReturned == metadata_res # JNull

\* Call c of ai_analysis was made by process_single_page with budget b and
\* returned a text whose parse normalize_extracted_data accepts.
MetaCallSucceeded(c, b) ==
    /\ c.kind = "meta" /\ c.max_num = b /\ ~c.out.exc
    /\ ~NormalizeRaises(ai_analysis(c.out.text).parsed)

\* Call c of ai_analysis was made by process_single_page with the full budget
\* and raised an out-of-memory RuntimeError.
MetaCallExhausted(c) ==
    c.kind = "meta" /\ c.max_num = MaxNum(1) /\ c.out.exc /\ RetriesOn(c.out.e)

\* C17: when the first inference of process_single_page ran out of memory
\* and the inference at the reduced budget succeeded, the result returned
\* has status "success_fallback"; and a result of status "success" is
\* returned only when the first inference succeeded.
C17_FallbackStatus ==
    /\ (/\ Len(calls) >= 2
        /\ MetaCallExhausted(calls[1])
        /\ MetaCallSucceeded(calls[2], MaxNum(2)))
       => /\ MetaReturned
          /\ metadata_res.d[sStatus] = JStr(sSuccessFallback)
    /\ (MetaReturned /\ metadata_res.d[sStatus] = JStr(sSuccess))
       => /\ MetaCallSucceeded(calls[1], MaxNum(1))
          /\ \A i \in 2..Len(calls) : calls[i].kind # "meta"

\* The first inference raised "CUDA out of memory", the second returned the
\* metadata object, and the result is a fallback success holding it.
C17_Witness ==
    /\ Len(calls) >= 2
    /\ calls[1].kind = "meta" /\ calls[1].out.exc /\ calls[1].out.e = eCudaOom
    /\ MetaCallSucceeded(calls[2], MaxNum(2))
    /\ calls[2].out.text = rMeta
    /\ MetaReturned
    /\ metadata_res.d[sStatus] = JStr(sSuccessFallback)
    /\ metadata_res.d[sData].d[sDocumentType] = JStr(<<"W", "2">>)

\* The consumer takes the failure marker of a page from the queue.
DequeuesFailureMarker ==
    /\ preprocessed_queue # <<>>
    /\ preprocessed_queue' = Tail(preprocessed_queue)
    /\ Head(preprocessed_queue).pv = "None"

\* The record appended by this step is the ERROR record of the page at the
\* head of the queue, with message msg.
AppendsErrorRecord(msg) ==
    /\ Len(page_results') = Len(page_results) + 1
    /\ SubSeq(page_results', 1, Len(page_results)) = page_results
    /\ IsErrorRecord(page_results'[Len(page_results')], msg)
    /\ page_results'[Len(page_results')].d[sPage]
         = JNum(Head(preprocessed_queue).page_idx)

\* The record of every page whose inference raised an exception that is not
\* an out-of-memory RuntimeError is an ERROR record with the exception's
\* message.
InferenceErrorsRecorded ==
    mainPc # "done" =>
        \A i \in 1..Len(calls) :
            (calls[i].kind = "page" /\ calls[i].out.exc /\ ~RetriesOn(calls[i].out.e))
            => /\ IsErrorRecord(page_results[calls[i].page - start_page + 1],
                                calls[i].out.e.msg)
               /\ page_results[calls[i].page - start_page + 1].d[sPage]
                    = JNum(calls[i].page)

\* Once the preprocessor thread is started the request is not aborted, and
\* when the loop has ended every rendered page was preprocessed and has its
\* record, from an inference unless its preprocessing failed.
EveryPageRecorded ==
    (prodPc # "unstarted" /\ mainPc \in {"assemble", "done"}) =>
        /\ prodPc = "done"
        /\ Len(page_results) = total
        /\ \A i \in 1..total :
              /\ page_results[i].d[sPage] = JNum(start_page + i - 1)
              /\ \/ IsErrorRecord(page_results[i], sPreprocessingFailed)
                 \/ \E c \in 1..Len(calls) :
                       calls[c].kind = "page" /\ calls[c].page = start_page + i - 1

\* C18: a page whose preprocessing failed gets an ERROR record with message
\* "Preprocessing failed"; a page whose inference raised an exception that
\* is not resource exhaustion gets an ERROR record with the exception's
\* message; and every later page is still preprocessed, inferred and
\* recorded.
C18_ErrorsAreRecordedAndSkipped ==
    /\ [](InferenceErrorsRecorded /\ EveryPageRecorded)
    /\ [][DequeuesFailureMarker => AppendsErrorRecord(sPreprocessingFailed)]_vars

\* Three pages: the preprocessing of the first failed, the inference of the
\* second raised a RuntimeError that is not out of memory, and the third was
\* inferred and has a structured record.
C18_Witness ==
    /\ mainPc = "assemble"
    /\ total >= 3
    /\ IsErrorRecord(page_results[1], sPreprocessingFailed)
    /\ IsErrorRecord(page_results[2], eRuntime.msg)
    /\ \E c \in 1..Len(calls) :
          /\ calls[c].kind = "page" /\ calls[c].page = start_page + 1
          /\ calls[c].out.exc /\ calls[c].out.e = eRuntime
    /\ \E c \in 1..Len(calls) :
          /\ calls[c].kind = "page" /\ calls[c].page = start_page + 2
          /\ ~calls[c].out.exc
    /\ page_results[3].d[sSection] = JStr(sUnknownSection)
    /\ page_results[3].d[<<"k">>] = JNum(1)

\* Every key of the normalized record norm other than "section" is in the
\* page record rec, with norm's value.
HoldsEveryField(rec, norm) ==
    \A k \in DOMAIN norm.d \ {sSection} :
        k \in DOMAIN rec.d /\ rec.d[k] = norm.d[k]

\* The inference returned structured output a.parsed that the normalizer
\* accepts, and the page's record holds every field of its normalization.
MergedIfStructured(rec, a) ==
    (a.parsed # JNull /\ ~NormalizeRaises(a.parsed))
    => HoldsEveryField(rec, normalize_extracted_data(a.parsed))

\* C19: before the final sort, the record of every page whose inference
\* returned structured output holds every key of the normalized record
\* other than "section", with the normalized value, also where that value
\* is 0 or false.
C19_EveryFieldMerged ==
    mainPc # "done" =>
        \A i \in 1..Len(calls) :
            (calls[i].kind = "page" /\ ~calls[i].out.exc)
            => MergedIfStructured(page_results[calls[i].page - start_page + 1],
                                  ai_analysis(calls[i].out.text))

-----------------------------------------------------------------------------
(* Termination of the page pipeline.                                       *)

\* The items the preprocessor thread has enqueued.
Enqueued == IF prodPc = "unstarted" THEN 0 ELSE prodIdx - 1

\* Each item enqueued is dequeued or still queued, and the queue holds the
\* items of consecutive pages, the next page to dequeue first: every page is
\* enqueued once, in page order.
OneItemPerPage ==
    /\ Enqueued = Dequeued + Len(preprocessed_queue)
    /\ Enqueued <= total
    /\ \A j \in 1..Len(preprocessed_queue) :
          /\ preprocessed_queue[j].page_idx = start_page + Dequeued + j - 1
          /\ preprocessed_queue[j].pv \in {"tensor", "None"}

\* The consumer loop has ended.
LoopEnded == prodPc # "unstarted" /\ mainPc \in {"assemble", "done"}

\* When the loop has ended the producer has enqueued one item for each
\* rendered page, the consumer has dequeued as many, and the queue is empty.
EndsBalanced ==
    LoopEnded =>
        /\ Enqueued = total
        /\ Dequeued = total
        /\ preprocessed_queue = <<>>
        /\ prodPc = "done"

ConsumerBlocked == mainPc = "get" /\ preprocessed_queue = <<>>

ProducerBlocked == prodPc = "put" /\ Len(preprocessed_queue) = QueueMaxsize

\* A thread is blocked on the queue only while the pipeline runs.
BlockedOnlyWhileRunning ==
    (ConsumerBlocked \/ ProducerBlocked) => (prodPc # "unstarted" /\ ~LoopEnded)

\* C20: once the preprocessor thread is started, under fair scheduling the
\* pipeline terminates: the producer enqueues exactly one item for each
\* rendered page, the consumer dequeues as many, and the consumer loop ends
\* with the queue empty, the producer finished and the request answered; a
\* thread blocked on the queue, being blocked only while the pipeline runs,
\* is thereby released.
C20_PipelineTerminates ==
    /\ [](OneItemPerPage /\ EndsBalanced /\ BlockedOnlyWhileRunning)
    /\ (prodPc # "unstarted")
         ~> (LoopEnded /\ mainPc = "done" /\ prodPc = "done"
             /\ ~ConsumerBlocked /\ ~ProducerBlocked)

\* A request of four pages has ended: four items were enqueued and dequeued,
\* one of them a failure marker, and the queue is empty.
C20_Witness ==
    /\ LoopEnded
    /\ mainPc = "done"
    /\ total = 4
    /\ Enqueued = 4
    /\ Dequeued = 4
    /\ preprocessed_queue = <<>>
    /\ \E i \in 1..Len(page_results) :
          IsErrorRecord(page_results[i], sPreprocessingFailed)

-----------------------------------------------------------------------------
(* Properties of the context cache.                                        *)

IsUse(c) == c.op \in {"load_context", "get_context"}

\* No clear_gpu among the calls i+1 .. j-1.
NoResetBetween(i, j) ==
    \A k \in (i + 1)..(j - 1) : ctx_log[k].op # "clear_gpu"

\* Call j is the first use of the context after the start or after a reset.
FirstUseSinceReset(j) ==
    /\ IsUse(ctx_log[j])
    /\ \A k \in 1..(j - 1) :
          ctx_log[k].op = "clear_gpu" \/ \E r \in (k + 1)..(j - 1) : ctx_log[r].op = "clear_gpu"

\* C21: with model loading enabled, over every sequence of load_context,
\* get_context and clear_gpu calls: nothing is loaded before the first use;
\* a call loads the model only when no context is cached, and the first use
\* after the start or after a reset does load; two calls with no reset
\* between them return the same context, which is the cached one; and
\* clear_gpu leaves the cache empty.
C21_ContextCachedUntilReset ==
    ~disable_local =>
        /\ ctx_log = <<>> => (_CTX = JNull /\ loads = 0)
        /\ \A j \in 1..Len(ctx_log) :
              /\ ctx_log[j].loading => (IsUse(ctx_log[j]) /\ ctx_log[j].before = JNull)
              /\ FirstUseSinceReset(j) => ctx_log[j].loading
              /\ (IsUse(ctx_log[j]) /\ ctx_log[j].before # JNull)
                 => /\ ~ctx_log[j].raised
                    /\ ctx_log[j].ret = ctx_log[j].before
                    /\ ctx_log[j].after = ctx_log[j].before
              /\ ctx_log[j].op = "clear_gpu" => ctx_log[j].after = JNull
              /\ (j = Len(ctx_log)) => ctx_log[j].after = _CTX
              /\ \A i \in 1..(j - 1) :
                    (/\ IsUse(ctx_log[i]) /\ ~ctx_log[i].raised
                     /\ IsUse(ctx_log[j]) /\ ~ctx_log[j].raised
                     /\ NoResetBetween(i, j))
                    => ctx_log[i].ret = ctx_log[j].ret
        /\ loads = Cardinality({j \in 1..Len(ctx_log) :
                                   ctx_log[j].loading /\ ~ctx_log[j].raised})

\* The model is loaded on the first call, the second call returns the same
\* context without loading, clear_gpu empties the cache, and the next call
\* loads a second context.
C21_Witness ==
    /\ ~disable_local
    /\ Len(ctx_log) = 4
    /\ ctx_log[1].op = "load_context" /\ ctx_log[1].loading /\ ~ctx_log[1].raised
    /\ ctx_log[2].op = "get_context" /\ ~ctx_log[2].loading
    /\ ctx_log[2].ret = ctx_log[1].ret
    /\ ctx_log[3].op = "clear_gpu" /\ ctx_log[3].after = JNull
    /\ ctx_log[4].op = "get_context" /\ ctx_log[4].loading /\ ~ctx_log[4].raised
    /\ ctx_log[4].ret # ctx_log[1].ret
    /\ _CTX = ctx_log[4].ret
    /\ loads = 2

====
